---- MODULE Spec2Model ----
(***************************************************************************)
(* A model of krono (src/src/index.ts): the immutable, timezone-aware      *)
(* instant type, its offset resolver, calendar arithmetic and parsing      *)
(* pipeline.                                                               *)
(*                                                                         *)
(* Numbers.  A JavaScript number holding a time value is modelled as a     *)
(* record [d, ms] standing for d * 86400000 + ms with 0 <= ms < 86400000   *)
(* (the range +-8.64e15 of a time value is +-1e8 days exactly).  NaN and   *)
(* Infinity are records with a negative ms field.                          *)
(*                                                                         *)
(* Strings are sequences of one-character strings, so that the regular     *)
(* expressions of the source are matched character by character.           *)
(***************************************************************************)
EXTENDS Integers, Sequences, FiniteSets, TLC

\* ------------------------------------------------------------------
\* Time constants (index.ts 176-180)
\* ------------------------------------------------------------------
MS_PER_SECOND == 1000

MS_PER_MINUTE == 60000

MS_PER_HOUR == 3600000

MS_PER_DAY == 86400000

MS_PER_WEEK == 604800000

\* 8.64e15 ms, counted in days
MAX_TIME_DAYS == 100000000

\* ------------------------------------------------------------------
\* JavaScript numbers that hold time values
\* ------------------------------------------------------------------
NaN == [d |-> 0, ms |-> -1]

Infinity == [d |-> 0, ms |-> -2]

IsFinite(x) == x.ms >= 0

Norm(d, ms) == [d |-> d + (ms \div MS_PER_DAY), ms |-> ms % MS_PER_DAY]

Num(i) == Norm(0, i)

Plus(a, b) ==
    IF IsFinite(a) /\ IsFinite(b) THEN Norm(a.d + b.d, a.ms + b.ms) ELSE NaN

Minus(a, b) ==
    IF IsFinite(a) /\ IsFinite(b) THEN Norm(a.d - b.d, a.ms - b.ms) ELSE NaN

Lt(a, b) ==
    IsFinite(a) /\ IsFinite(b) /\ (a.d < b.d \/ (a.d = b.d /\ a.ms < b.ms))

Abs(a) == IF IsFinite(a) /\ a.d < 0 THEN Minus(Num(0), a) ELSE a

MAX_TIME == [d |-> MAX_TIME_DAYS, ms |-> 0]

\* ECMAScript TimeClip: a time value beyond +-8.64e15 is NaN
TimeClip(x) == IF IsFinite(x) /\ ~Lt(MAX_TIME, Abs(x)) THEN x ELSE NaN

\* ------------------------------------------------------------------
\* The UTC calendar of the native Date (proleptic Gregorian)
\* ------------------------------------------------------------------
\* DAYS_IN_MONTH (index.ts 199), indexed from 1
DAYS_IN_MONTH == <<31, 28, 31, 30, 31, 30, 31, 31, 30, 31, 30, 31>>

IsLeapYear(year) == (year % 4 = 0 /\ year % 100 # 0) \/ year % 400 = 0

\* Days from 1970-01-01 to day-of-year doy of year-of-era yoe of an era of
\* 400 years that start on March 1
DaysInEra(era, yoe, doy) ==
    era * 146097 + yoe * 365 + (yoe \div 4) - (yoe \div 100) + doy - 719468

DaysFromShifted(yy, mp, d) ==
    DaysInEra(yy \div 400, yy % 400, ((153 * mp + 2) \div 5) + d - 1)

\* Days from 1970-01-01 to the civil date y-m-d (m in 1..12)
DaysFromCivil(y, m, d) ==
    DaysFromShifted(IF m <= 2 THEN y - 1 ELSE y, IF m > 2 THEN m - 3 ELSE m + 9, d)

CivilFromMp(era, yoe, doy, mp) ==
    [y |-> yoe + era * 400 + (IF mp >= 10 THEN 1 ELSE 0),
     m |-> IF mp < 10 THEN mp + 3 ELSE mp - 9,
     d |-> doy - ((153 * mp + 2) \div 5) + 1]

CivilFromDoy(era, yoe, doy) == CivilFromMp(era, yoe, doy, (5 * doy + 2) \div 153)

CivilFromYoe(era, doe, yoe) ==
    CivilFromDoy(era, yoe, doe - (365 * yoe + (yoe \div 4) - (yoe \div 100)))

CivilFromDoe(era, doe) ==
    CivilFromYoe(era, doe,
                 (doe - (doe \div 1460) + (doe \div 36524) - (doe \div 146096))
                     \div 365)

\* The civil date [y, m, d] of a day number
CivilFromDays(days) ==
    CivilFromDoe((days + 719468) \div 146097, (days + 719468) % 146097)

\* ECMAScript MakeDay(year, month, date) with a 0-based month that may overflow
MakeDay(year, month, date) ==
    DaysFromCivil(year + (month \div 12), (month % 12) + 1, 1) + date - 1

\* ECMAScript MakeTime
MakeTime(h, mi, s, ms) ==
    h * MS_PER_HOUR + mi * MS_PER_MINUTE + s * MS_PER_SECOND + ms

\* ECMAScript MakeDate followed by TimeClip
MakeDate(day, time) == TimeClip(Norm(day, time))

\* Date.UTC(year, month0, day, hour, minute, second, ms)
DateUTC(y, m0, d, h, mi, s, ms) == MakeDate(MakeDay(y, m0, d), MakeTime(h, mi, s, ms))

\* The getUTC* accessors of a valid Date
getUTCFullYear(t) == CivilFromDays(t.d).y

getUTCMonth(t) == CivilFromDays(t.d).m - 1

getUTCDate(t) == CivilFromDays(t.d).d

getUTCDay(t) == (t.d + 4) % 7

getUTCHours(t) == t.ms \div MS_PER_HOUR

getUTCMinutes(t) == (t.ms % MS_PER_HOUR) \div MS_PER_MINUTE

getUTCSeconds(t) == (t.ms % MS_PER_MINUTE) \div MS_PER_SECOND

getUTCMilliseconds(t) == t.ms % MS_PER_SECOND

\* ------------------------------------------------------------------
\* The civil-time oracle (Intl.DateTimeFormat) for the zones of the model
\* ------------------------------------------------------------------
UTC == "UTC"

Tokyo == "Asia/Tokyo"

NewYork == "America/New_York"

BadZone == "Invalid/Zone"

\* The identifiers the platform accepts as a timeZone option
\* Further identifiers the platform accepts, as many as the lookups of one
\* run name; the model gives each the offset of UTC all year
MaxZones == 102

MoreZone(k) == "Area/Zone" \o ToString(k)

MoreZones == {MoreZone(k) : k \in 1..MaxZones}

OracleZones == {UTC, Tokyo, NewYork} \cup MoreZones

\* The n-th Sunday (n >= 1) on or after the day numbered first
SundayFrom(first, n) == first + ((7 - ((first + 4) % 7)) % 7) + 7 * (n - 1)

\* Day number of the n-th Sunday (n >= 1) of month m of year y
NthSunday(y, m, n) == SundayFrom(DaysFromCivil(y, m, 1), n)

\* US daylight saving time in year y: second Sunday of March 07:00 UTC until
\* first Sunday of November 06:00 UTC
DSTInYear(t, y) ==
    /\ ~Lt(t, [d |-> NthSunday(y, 3, 2), ms |-> 7 * MS_PER_HOUR])
    /\ Lt(t, [d |-> NthSunday(y, 11, 1), ms |-> 6 * MS_PER_HOUR])

NewYorkIsDST(t) == DSTInYear(t, getUTCFullYear(t))

\* The offsets (ms east of UTC) a zone uses, standard first
ZoneOffsets(z) ==
    CASE z = Tokyo   -> <<9 * MS_PER_HOUR, 9 * MS_PER_HOUR>>
      [] z = NewYork -> <<-5 * MS_PER_HOUR, -4 * MS_PER_HOUR>>
      [] OTHER       -> <<0, 0>>

\* Milliseconds east of UTC the zone keeps at the UTC instant t
EastOffset(z, t) ==
    IF z = NewYork /\ NewYorkIsDST(t) THEN ZoneOffsets(z)[2] ELSE ZoneOffsets(z)[1]

\* The parts of the local time loc whose civil date is c.  The year part is the
\* era year (1 BC prints as 1), as { year: "numeric" } gives it.
PartsOf(loc, c) ==
    [year   |-> IF c.y <= 0 THEN 1 - c.y ELSE c.y,
     month  |-> c.m,
     day    |-> c.d,
     hour   |-> getUTCHours(loc),
     minute |-> getUTCMinutes(loc),
     second |-> getUTCSeconds(loc)]

PartsAt(loc) == PartsOf(loc, CivilFromDays(loc.d))

\* formatToParts: the civil fields the zone assigns to the instant t
FormatToParts(z, t) == PartsAt(Plus(t, Num(EastOffset(z, t))))

\* The instant of the local time loc, given the instants uStd and uDst it
\* would be under the standard and the daylight offset.  A repeated or
\* skipped local time is read with the offset in force before the transition.
PickInstant(z, loc, std, dst, uStd, uDst) ==
    IF ~IsFinite(loc) THEN NaN
    ELSE IF EastOffset(z, uStd) = std /\ EastOffset(z, uDst) = dst
    THEN (IF std = dst THEN uStd ELSE uDst)
    ELSE IF EastOffset(z, uDst) = dst THEN uDst
    ELSE uStd

LocalWith(z, loc, std, dst) ==
    PickInstant(z, loc, std, dst, Minus(loc, Num(std)), Minus(loc, Num(dst)))

\* ECMAScript UTC(t): the instant of a local time of the host zone
LocalToUTC(z, loc) == LocalWith(z, loc, ZoneOffsets(z)[1], ZoneOffsets(z)[2])

\* Years 0..99 given to Date.UTC or to the Date constructor mean 1900..1999
FullYear(y) == IF 0 <= y /\ y <= 99 THEN 1900 + y ELSE y

\* new Date(year, month0, day): local midnight of the host zone
DateLocal(host, y, m0, d) ==
    TimeClip(LocalToUTC(host, Norm(MakeDay(FullYear(y), m0, d), 0)))

\* ------------------------------------------------------------------
\* The process-wide caches (index.ts 105-140, 232-233)
\* ------------------------------------------------------------------
OffsetCacheMax == 100

\* An environment is what a call reads and writes outside its receiver:
\*   oc       the offset cache, a sequence of [zone, map] in insertion order
\*            (least recently used first), map a function from timestamps
\*            to offsets
\*   vz       the set of zone identifiers known valid
\*   host     the zone of the host system
\*   lenient  whether the platform's date parser rolls day-of-month over
\*   now      the reading of the clock (Date.now()) during the call
MkEnv(oc, vz, host, lenient, now) ==
    [oc |-> oc, vz |-> vz, host |-> host, lenient |-> lenient, now |-> now]

EmptyMap == [x \in {} |-> NaN]

LRUIndex(c, key) ==
    IF \E i \in 1..Len(c) : c[i].zone = key
    THEN CHOOSE i \in 1..Len(c) : c[i].zone = key
    ELSE 0

LRURemove(c, i) == [j \in 1..(Len(c) - 1) |-> IF j < i THEN c[j] ELSE c[j + 1]]

\* The cache with its i-th entry moved to the most-recently-used end
LRUMoved(c, i) == IF i = 0 THEN c ELSE Append(LRURemove(c, i), c[i])

\* LRUCache.get that leaves the entry where it was
LRUGet_NoMove(c, key) == c

\* LRUCache.get: a hit moves the entry to the most-recently-used end
LRUGet(c, key) == LRUMoved(c, LRUIndex(c, key))

\* LRUPut that never drops the least recently used entry
LRUPut_NoEviction(c, i, key, value) ==
    Append(IF i # 0 THEN LRURemove(c, i) ELSE c, [zone |-> key, map |-> value])

\* The cache with [key, value] at the most-recently-used end, i the index the
\* key had
LRUPut(c, i, key, value) ==
    Append(IF i # 0 THEN LRURemove(c, i)
           ELSE IF Len(c) >= OffsetCacheMax THEN Tail(c)
           ELSE c,
           [zone |-> key, map |-> value])

\* LRUCache.set
LRUSet(c, key, value) == LRUPut(c, LRUIndex(c, key), key, value)

\* zone.isValid with every identifier the oracle is asked about remembered
IsValid_RemembersAll(env, z) ==
    IF z \in env.vz THEN [env |-> env, val |-> TRUE, how |-> "known"]
    ELSE [env |-> [env EXCEPT !.vz = @ \cup {z}], val |-> z \in OracleZones,
          how |-> "asked"]

\* zone.isValid; how tells whether the answer came from the set of known
\* identifiers or from the oracle
IsValid(env, z) ==
    IF z \in env.vz THEN [env |-> env, val |-> TRUE, how |-> "known"]
    ELSE IF z \in OracleZones
         THEN [env |-> [env EXCEPT !.vz = @ \cup {z}], val |-> TRUE, how |-> "asked"]
         ELSE [env |-> env, val |-> FALSE, how |-> "asked"]

\* getOffset: zoneCache.set(timestamp, offset) on the cache oc2
StoreOffset(env, t, z, oc2, offset) ==
    [env |-> [env EXCEPT !.oc =
                 [oc2 EXCEPT ![LRUIndex(oc2, z)].map = (t :> offset) @@ @]],
     val |-> offset, how |-> "computed"]

\* getOffset: the offset from the parts p the formatter gave
ComputeOffset(env, t, z, oc1, i, p) ==
    StoreOffset(env, t, z,
                IF i = 0 THEN LRUSet(oc1, z, EmptyMap) ELSE oc1,
                Minus(t, DateUTC(FullYear(p.year), p.month - 1, p.day, p.hour,
                                 p.minute, p.second, getUTCMilliseconds(t))))

\* getOffset that stores 0 for the zone when the oracle throws
LookupOffset_StoresFailure(env, t, z, oc1, i) ==
    IF i # 0 /\ t \in DOMAIN oc1[i].map
    THEN [env |-> [env EXCEPT !.oc = oc1], val |-> oc1[i].map[t], how |-> "cached"]
    ELSE StoreOffset(env, t, z, IF i = 0 THEN LRUSet(oc1, z, EmptyMap) ELSE oc1, Num(0))

\* getOffset after _offsetCache.get(zoneName) left the cache oc1 with the
\* zone at index i (0 when it has none)
\* (how: "cached" a stored offset, "failed" the oracle threw and the warning
\* was written, "computed" otherwise)
LookupOffset(env, t, z, oc1, i) ==
    IF i # 0 /\ t \in DOMAIN oc1[i].map
    THEN [env |-> [env EXCEPT !.oc = oc1], val |-> oc1[i].map[t], how |-> "cached"]
    ELSE IF ~IsFinite(TimeClip(t)) \/ z \notin OracleZones
    THEN [env |-> [env EXCEPT !.oc = oc1], val |-> Num(0), how |-> "failed"]
    ELSE ComputeOffset(env, t, z, oc1, i, FormatToParts(z, t))

TouchOffset(env, t, z, oc1) == LookupOffset(env, t, z, oc1, LRUIndex(oc1, z))

\* zone.getOffset without the early return for "UTC"
GetOffset_NoEarlyReturn(env, t, z) == TouchOffset(env, t, z, LRUGet(env.oc, z))

\* zone.getOffset (how: "utc" the early return)
GetOffset(env, t, z) ==
    IF z = UTC THEN [env |-> env, val |-> Num(0), how |-> "utc"]
    ELSE TouchOffset(env, t, z, LRUGet(env.oc, z))

\* handleDSTAmbiguity that goes an hour back whatever the preference is
DecideDST_Earlier(t, preference, offsetBefore, ra) ==
    [env |-> ra.env,
     val |-> IF ~IsFinite(offsetBefore) \/ ~IsFinite(ra.val) \/ offsetBefore # ra.val
             THEN Minus(t, Num(MS_PER_HOUR))
             ELSE t]

\* handleDSTAmbiguity once both offsets are known (NaN !== NaN holds in
\* JavaScript)
DecideDST(t, preference, offsetBefore, ra) ==
    [env |-> ra.env,
     val |-> IF ~IsFinite(offsetBefore) \/ ~IsFinite(ra.val) \/ offsetBefore # ra.val
             THEN (IF preference = "later" THEN t ELSE Minus(t, Num(MS_PER_HOUR)))
             ELSE t]

AfterDST(t, z, preference, rb) ==
    DecideDST(t, preference, rb.val, GetOffset(rb.env, Plus(t, Num(MS_PER_HOUR)), z))

\* zone.handleDSTAmbiguity
HandleDSTAmbiguity(env, t, z, preference) ==
    IF z = UTC THEN [env |-> env, val |-> t]
    ELSE AfterDST(t, z, preference, GetOffset(env, Minus(t, Num(MS_PER_HOUR)), z))

\* ------------------------------------------------------------------
\* Calendar arithmetic (index.ts 442-505)
\* ------------------------------------------------------------------
Units == {"millisecond", "second", "minute", "hour", "day", "week", "month", "year"}

\* UNIT_MULTIPLIERS (index.ts 186-193)
UnitMultiplier(unit) ==
    CASE unit = "millisecond" -> 1
      [] unit = "second"      -> MS_PER_SECOND
      [] unit = "minute"      -> MS_PER_MINUTE
      [] unit = "hour"        -> MS_PER_HOUR
      [] unit = "day"         -> MS_PER_DAY
      [] unit = "week"        -> MS_PER_WEEK

InUnitMultipliers(unit) ==
    unit \in {"millisecond", "second", "minute", "hour", "day", "week"}

Min(a, b) == IF a < b THEN a ELSE b

\* setUTCFullYear that stops at the last day of month m0
SetUTCFullYear_Clamped(t, y, m0, d) ==
    MakeDate(Min(MakeDay(y, m0, d), MakeDay(y, m0 + 1, 0)), IF IsFinite(t) THEN t.ms ELSE 0)

\* Date.prototype.setUTCFullYear(y, m0, d) on a valid or invalid Date
SetUTCFullYear(t, y, m0, d) ==
    MakeDate(MakeDay(y, m0, d), IF IsFinite(t) THEN t.ms ELSE 0)

\* Date.prototype.setUTCDate(d)
SetUTCDate(t, d) ==
    IF ~IsFinite(t) THEN NaN
    ELSE MakeDate(MakeDay(getUTCFullYear(t), getUTCMonth(t), d), t.ms)

\* The Date the month case reads the last day of the target month from:
\* new Date(targetYear, finalMonth + 1, 0), midnight in the host zone
LastDayOfTargetMonth(host, targetYear, finalMonth) ==
    DateLocal(host, targetYear, finalMonth + 1, 0)

\* The month case: setUTCDate(Math.min(originalDay, lastDay.getUTCDate()))
ClampDay(zonedDate, first, lastDay) ==
    IF ~IsFinite(lastDay) THEN NaN
    ELSE SetUTCDate(first, Min(getUTCDate(zonedDate), getUTCDate(lastDay)))

MonthIn(host, zonedDate, targetYear, finalMonth) ==
    ClampDay(zonedDate, SetUTCFullYear(zonedDate, targetYear, finalMonth, 1),
             LastDayOfTargetMonth(host, targetYear, finalMonth))

ShiftMonth(host, zonedDate, targetMonth) ==
    MonthIn(host, zonedDate, getUTCFullYear(zonedDate) + (targetMonth \div 12),
            ((targetMonth % 12) + 12) % 12)

\* The switch of addTimeWithDST applied to the civil time zonedDate
ShiftCivil(host, zonedDate, amount, unit) ==
    IF ~IsFinite(zonedDate) THEN NaN
    ELSE CASE unit = "year" ->
                SetUTCFullYear(zonedDate, getUTCFullYear(zonedDate) + amount,
                               getUTCMonth(zonedDate), getUTCDate(zonedDate))
           [] unit = "month" ->
                ShiftMonth(host, zonedDate, getUTCMonth(zonedDate) + amount)
           [] unit = "week" ->
                SetUTCDate(zonedDate, getUTCDate(zonedDate) + amount * 7)
           [] unit = "day" ->
                SetUTCDate(zonedDate, getUTCDate(zonedDate) + amount)
           [] OTHER -> zonedDate

\* addTimeWithDST: result = zonedDate.getTime() + offset, resolved
ResolveShift(z, zonedDate, r1) ==
    HandleDSTAmbiguity(r1.env, Plus(zonedDate, r1.val), z, "later")

ShiftBack(e, z, zonedDate) == ResolveShift(z, zonedDate, GetOffset(e, zonedDate, z))

ShiftZoned(env, t, amount, unit, z, r0) ==
    ShiftBack(r0.env, z,
              ShiftCivil(env.host, TimeClip(Minus(t, r0.val)), amount, unit))

\* zone.addTimeWithDST
AddTimeWithDST(env, t, amount, unit, z) ==
    IF InUnitMultipliers(unit) /\ unit # "day" /\ unit # "week"
    THEN [env |-> env, val |-> Plus(t, Num(amount * UnitMultiplier(unit)))]
    ELSE ShiftZoned(env, t, amount, unit, z, GetOffset(env, t, z))

\* ------------------------------------------------------------------
\* Strings: sequences of one-character strings
\* ------------------------------------------------------------------
DigitChars == <<"0", "1", "2", "3", "4", "5", "6", "7", "8", "9">>

UpperChars ==
    <<"A", "B", "C", "D", "E", "F", "G", "H", "I", "J", "K", "L", "M",
      "N", "O", "P", "Q", "R", "S", "T", "U", "V", "W", "X", "Y", "Z">>

LowerChars ==
    <<"a", "b", "c", "d", "e", "f", "g", "h", "i", "j", "k", "l", "m",
      "n", "o", "p", "q", "r", "s", "t", "u", "v", "w", "x", "y", "z">>

IsDigit(c) == \E i \in 1..10 : DigitChars[i] = c

DigitVal(c) == (CHOOSE i \in 1..10 : DigitChars[i] = c) - 1

CharAt(s, i) == IF 1 <= i /\ i <= Len(s) THEN s[i] ELSE ""

\* \d{n} at position i
DigitsAt(s, i, n) == \A k \in 0..(n - 1) : IsDigit(CharAt(s, i + k))

\* Number.parseInt of the n digits at position i
RECURSIVE IntAt(_, _, _)
IntAt(s, i, n) ==
    IF n = 0 THEN 0 ELSE IntAt(s, i, n - 1) * 10 + DigitVal(s[i + n - 1])

\* String(n) for an integer n
RECURSIVE NatToStr(_)
NatToStr(n) ==
    IF n < 10 THEN <<DigitChars[n + 1]>>
    ELSE NatToStr(n \div 10) \o <<DigitChars[(n % 10) + 1]>>

NumToStr(n) == IF n < 0 THEN <<"-">> \o NatToStr(-n) ELSE NatToStr(n)

\* String.prototype.padStart(width, "0")
RECURSIVE PadStart(_, _)
PadStart(s, width) == IF Len(s) >= width THEN s ELSE PadStart(<<"0">> \o s, width)

\* String.prototype.toLowerCase
ToLowerCase(s) ==
    [i \in 1..Len(s) |->
        IF \E k \in 1..26 : UpperChars[k] = s[i]
        THEN LowerChars[CHOOSE k \in 1..26 : UpperChars[k] = s[i]]
        ELSE s[i]]

\* String.prototype.trim
RECURSIVE Trim(_)
Trim(s) ==
    IF s = <<>> THEN s
    ELSE IF Head(s) = " " THEN Trim(Tail(s))
    ELSE IF s[Len(s)] = " " THEN Trim(SubSeq(s, 1, Len(s) - 1))
    ELSE s

\* Whether the literal lit stands at position i of s
LitAt(s, i, lit) ==
    /\ i + Len(lit) - 1 <= Len(s)
    /\ \A k \in 1..Len(lit) : s[i + k - 1] = lit[k]

\* String.prototype.includes
Includes(s, lit) == \E i \in 1..Len(s) : LitAt(s, i, lit)

\* String.prototype.replace(" ", "T"): the first space only
ReplaceFirstSpace(s) ==
    IF \E i \in 1..Len(s) : s[i] = " "
    THEN LET i == CHOOSE k \in 1..Len(s) :
                    s[k] = " " /\ \A j \in 1..(k - 1) : s[j] # " "
         IN  [s EXCEPT ![i] = "T"]
    ELSE s

\* ------------------------------------------------------------------
\* Patterns of the strict ISO stage (index.ts 150-151, 683)
\* ------------------------------------------------------------------
\* ^(\d{4})-(\d{2})-(\d{2})
DatePrefix(s) ==
    /\ DigitsAt(s, 1, 4) /\ CharAt(s, 5) = "-"
    /\ DigitsAt(s, 6, 2) /\ CharAt(s, 8) = "-"
    /\ DigitsAt(s, 9, 2)

\* T(\d{2}):(\d{2}):(\d{2}) at position i
TimeAt(s, i) ==
    /\ CharAt(s, i) = "T"
    /\ DigitsAt(s, i + 1, 2) /\ CharAt(s, i + 3) = ":"
    /\ DigitsAt(s, i + 4, 2) /\ CharAt(s, i + 6) = ":"
    /\ DigitsAt(s, i + 7, 2)

\* (?:Z|([+-]\d{2}):?(\d{2})|$) at position i
ZoneOrEndAt(s, i) ==
    \/ CharAt(s, i) = "Z"
    \/ /\ CharAt(s, i) \in {"+", "-"}
       /\ DigitsAt(s, i + 1, 2)
       /\ \/ DigitsAt(s, i + 3, 2)
          \/ CharAt(s, i + 3) = ":" /\ DigitsAt(s, i + 4, 2)
    \/ i = Len(s) + 1

\* ISO_WITH_ZONE_REGEX: the optional groups are tried longest first
IsoWithZoneMatch(s) ==
    /\ DatePrefix(s)
    /\ \/ TimeAt(s, 11) /\ CharAt(s, 20) = "." /\ DigitsAt(s, 21, 3)
                        /\ ZoneOrEndAt(s, 24)
       \/ TimeAt(s, 11) /\ ZoneOrEndAt(s, 20)
       \/ ZoneOrEndAt(s, 11)

\* /^\d{4}-\d{2}-\d{2}[ T]\d{2}:\d{2}:\d{2}/
UtcDefaultMatch(s) ==
    /\ DatePrefix(s)
    /\ CharAt(s, 11) \in {" ", "T"}
    /\ DigitsAt(s, 12, 2) /\ CharAt(s, 14) = ":"
    /\ DigitsAt(s, 15, 2) /\ CharAt(s, 17) = ":"
    /\ DigitsAt(s, 18, 2)

\* validateDateComponents with a leap year every fourth year
ValidDateComponents_Julian(year, month, day) ==
    IF month < 1 \/ month > 12 \/ day < 1 \/ day > 31 THEN FALSE
    ELSE ~(day > (IF month = 2 /\ year % 4 = 0 THEN 29 ELSE DAYS_IN_MONTH[month]))

\* validateDateComponents: TRUE when it returns, FALSE when it throws
ValidDateComponents(year, month, day) ==
    IF month < 1 \/ month > 12 \/ day < 1 \/ day > 31 THEN FALSE
    ELSE LET isLeap == (year % 4 = 0 /\ year % 100 # 0) \/ year % 400 = 0
             daysInMonthForInput ==
                 IF month = 2 /\ isLeap THEN 29 ELSE DAYS_IN_MONTH[month]
         IN  ~(day > daysInMonthForInput)

\* Date.parse of the platform on the strings of the model:
\*   YYYY-MM-DD[(T| )HH:MM[:SS[.mmm]]][Z|(+|-)HH:MM]
\* A date alone is UTC; a date-time without a zone suffix is local time of the
\* host zone.  A day-of-month up to 31 that the month does not have rolls over
\* into the next month on a lenient platform and is rejected on a strict one.
\* Any other string is not a date (NaN).
\*
\* The zone suffix at position p, applied to the civil time read before it
ParseZone(host, s, p, civil) ==
    IF CharAt(s, p) = "Z" /\ Len(s) = p THEN TimeClip(civil)
    ELSE IF /\ CharAt(s, p) \in {"+", "-"} /\ DigitsAt(s, p + 1, 2)
            /\ CharAt(s, p + 3) = ":" /\ DigitsAt(s, p + 4, 2)
            /\ Len(s) = p + 5
    THEN TimeClip(IF s[p] = "+"
                  THEN Minus(civil, Num((IntAt(s, p + 1, 2) * 60
                                         + IntAt(s, p + 4, 2)) * MS_PER_MINUTE))
                  ELSE Plus(civil, Num((IntAt(s, p + 1, 2) * 60
                                        + IntAt(s, p + 4, 2)) * MS_PER_MINUTE)))
    ELSE IF Len(s) = p - 1 THEN TimeClip(LocalToUTC(host, civil))
    ELSE NaN

ParseClock(host, s, day, h, mi, sec, ms, p) ==
    IF ~(h <= 23 /\ mi <= 59 /\ sec <= 59) THEN NaN
    ELSE ParseZone(host, s, p, Norm(day, MakeTime(h, mi, sec, ms)))

ParseShape(host, s, day, hasSec, hasFrac) ==
    ParseClock(host, s, day, IntAt(s, 12, 2), IntAt(s, 15, 2),
               IF hasSec THEN IntAt(s, 18, 2) ELSE 0,
               IF hasFrac THEN IntAt(s, 21, 3) ELSE 0,
               IF hasFrac THEN 24 ELSE IF hasSec THEN 20 ELSE 17)

ParseSeconds(host, s, day, hasSec) ==
    ParseShape(host, s, day, hasSec,
               hasSec /\ CharAt(s, 20) = "." /\ DigitsAt(s, 21, 3))

ParseDate(host, lenientDays, s, y, m, d) ==
    IF ~(m >= 1 /\ m <= 12 /\ d >= 1
         /\ d <= (IF lenientDays THEN 31
                  ELSE IF m = 2 /\ IsLeapYear(y) THEN 29
                  ELSE DAYS_IN_MONTH[m]))
    THEN NaN
    ELSE IF Len(s) = 10 THEN MakeDate(MakeDay(y, m - 1, d), 0)
    ELSE IF ~(/\ CharAt(s, 11) \in {"T", " "}
              /\ DigitsAt(s, 12, 2) /\ CharAt(s, 14) = ":"
              /\ DigitsAt(s, 15, 2))
    THEN NaN
    ELSE ParseSeconds(host, s, MakeDay(y, m - 1, d),
                      CharAt(s, 17) = ":" /\ DigitsAt(s, 18, 2))

DateParse(host, lenientDays, s) ==
    IF ~DatePrefix(s) THEN NaN
    ELSE ParseDate(host, lenientDays, s, IntAt(s, 1, 4), IntAt(s, 6, 2),
                   IntAt(s, 9, 2))

\* ------------------------------------------------------------------
\* Natural-language and relative patterns (index.ts 147-173, 217-225)
\* ------------------------------------------------------------------
\* The index of the first space of s, Len(s) + 1 when it has none
FirstSpace(s) ==
    IF \E i \in 1..Len(s) : s[i] = " "
    THEN CHOOSE i \in 1..Len(s) : s[i] = " " /\ \A j \in 1..(i - 1) : s[j] # " "
    ELSE Len(s) + 1

\* The words of a string, split at runs of spaces
RECURSIVE Words(_)
CutWord(s, n) == <<SubSeq(s, 1, n - 1)>> \o Words(SubSeq(s, n, Len(s)))

Words(s) ==
    IF s = <<>> THEN <<>>
    ELSE IF Head(s) = " " THEN Words(Tail(s))
    ELSE CutWord(s, FirstSpace(s))

\* WEEKDAY_MAP: the names in the order of their numbers, sunday = 0
WeekdayNames ==
    << <<"s", "u", "n", "d", "a", "y">>,
       <<"m", "o", "n", "d", "a", "y">>,
       <<"t", "u", "e", "s", "d", "a", "y">>,
       <<"w", "e", "d", "n", "e", "s", "d", "a", "y">>,
       <<"t", "h", "u", "r", "s", "d", "a", "y">>,
       <<"f", "r", "i", "d", "a", "y">>,
       <<"s", "a", "t", "u", "r", "d", "a", "y">> >>

IsWeekdayName(w) == \E i \in 1..7 : WeekdayNames[i] = w

WEEKDAY_MAP(w) == (CHOOSE i \in 1..7 : WeekdayNames[i] = w) - 1

\* The unit words of RELATIVE_REGEX, in the order of its alternation
RelativeUnits ==
    << [name |-> "year",   chars |-> <<"y", "e", "a", "r">>],
       [name |-> "month",  chars |-> <<"m", "o", "n", "t", "h">>],
       [name |-> "week",   chars |-> <<"w", "e", "e", "k">>],
       [name |-> "day",    chars |-> <<"d", "a", "y">>],
       [name |-> "hour",   chars |-> <<"h", "o", "u", "r">>],
       [name |-> "minute", chars |-> <<"m", "i", "n", "u", "t", "e">>],
       [name |-> "second", chars |-> <<"s", "e", "c", "o", "n", "d">>] >>

W_next == <<"n", "e", "x", "t">>

W_last == <<"l", "a", "s", "t">>

W_beginning == <<"b", "e", "g", "i", "n", "n", "i", "n", "g">>

W_start == <<"s", "t", "a", "r", "t">>

W_end == <<"e", "n", "d">>

W_of == <<"o", "f">>

W_now == <<"n", "o", "w">>

W_ago == <<"a", "g", "o">>

\* The unit a (month|year|week) group captures, "" when the word is none
PeriodUnit(w) ==
    IF w = RelativeUnits[2].chars THEN "month"
    ELSE IF w = RelativeUnits[1].chars THEN "year"
    ELSE IF w = RelativeUnits[3].chars THEN "week"
    ELSE ""

\* NATURAL_PATTERNS on the words w of the lower-cased string
MatchWords(w) ==
    IF Len(w) = 2 /\ w[1] = W_next /\ IsWeekdayName(w[2])
    THEN [handler |-> "nextWeekday", day |-> WEEKDAY_MAP(w[2]), unit |-> ""]
    ELSE IF Len(w) = 2 /\ w[1] = W_last /\ IsWeekdayName(w[2])
    THEN [handler |-> "lastWeekday", day |-> WEEKDAY_MAP(w[2]), unit |-> ""]
    ELSE IF Len(w) = 3 /\ w[1] \in {W_beginning, W_start} /\ w[2] = W_of
            /\ PeriodUnit(w[3]) # ""
    THEN [handler |-> "startOf", day |-> 0, unit |-> PeriodUnit(w[3])]
    ELSE IF Len(w) = 3 /\ w[1] = W_end /\ w[2] = W_of /\ PeriodUnit(w[3]) # ""
    THEN [handler |-> "endOf", day |-> 0, unit |-> PeriodUnit(w[3])]
    ELSE [handler |-> "", day |-> 0, unit |-> ""]

\* NATURAL_PATTERNS: the handler and capture of the first pattern that
\* matches the string (case-insensitively), handler "" when none does.  The
\* patterns are anchored, so a string with a space at either end matches none.
NaturalMatch(str) ==
    IF str # <<>> /\ (Head(str) = " " \/ str[Len(str)] = " ")
    THEN [handler |-> "", day |-> 0, unit |-> ""]
    ELSE MatchWords(Words(ToLowerCase(str)))

\* The last index of the run of digits that starts at i
DigitRunEnd(s, i) ==
    CHOOSE j \in i..Len(s) :
        (\A k \in i..j : IsDigit(s[k])) /\ ~IsDigit(CharAt(s, j + 1))

\* The first index at or after i that holds no space
SkipSpaces(s, i) ==
    CHOOSE p \in i..(Len(s) + 1) :
        CharAt(s, p) # " " /\ \A k \in i..(p - 1) : s[k] = " "

\* Whether a unit word stands at p, after at least one space behind j
RelativeUnitAt(s, j, p) ==
    p > j + 1 /\ \E u \in 1..7 : LitAt(s, p, RelativeUnits[u].chars)

RelativeSpaces(s, j) == RelativeUnitAt(s, j, SkipSpaces(s, j + 1))

\* Whether (\d+)\s+(year|month|week|day|hour|minute|second) matches at i
RelativeAt(s, i) == IsDigit(CharAt(s, i)) /\ RelativeSpaces(s, DigitRunEnd(s, i))

RelativeCaptured(s, i, j, u) ==
    [matched |-> TRUE, amount |-> IntAt(s, i, j - i + 1),
     unit |-> RelativeUnits[u].name]

RelativeUnit(s, i, j, p) ==
    RelativeCaptured(s, i, j, CHOOSE k \in 1..7 : LitAt(s, p, RelativeUnits[k].chars))

RelativeAmount(s, i, j) == RelativeUnit(s, i, j, SkipSpaces(s, j + 1))

RelativeFirst(s, i) == RelativeAmount(s, i, DigitRunEnd(s, i))

\* RELATIVE_REGEX, searched from the left: the captures of the first match
RelativeMatch(s) ==
    IF \E i \in 1..Len(s) : RelativeAt(s, i)
    THEN RelativeFirst(s, CHOOSE k \in 1..Len(s) :
                              RelativeAt(s, k) /\ \A j \in 1..(k - 1) : ~RelativeAt(s, j))
    ELSE [matched |-> FALSE, amount |-> 0, unit |-> ""]

\* ------------------------------------------------------------------
\* The Krono class (index.ts 516-1537)
\* ------------------------------------------------------------------
\* A call returns [env, err, val]: the environment after the call, the class
\* of the error it threw ("none" when it returned) and its value.  A method
\* also returns self, its receiver after the call (the memoized values of an
\* instance are the only part of it a method writes).
EmptyMemo == [k \in {} |-> 0]

NoObj == [time |-> NaN, locale |-> "", zone |-> "", memo |-> EmptyMemo]

KronoErrors == {"KronoError", "KronoParseError", "KronoTimezoneError"}

\* validateTimestamp: the error it throws, "none" when it returns
ValidateTimestamp(timestamp) ==
    IF ~IsFinite(timestamp) THEN "KronoError"
    ELSE IF Lt(MAX_TIME, Abs(timestamp)) THEN "KronoError"
    ELSE "none"

\* What a method returns when the call k it ends with returns
Result(me, k) == [env |-> k.env, err |-> k.err, val |-> k.val, self |-> me]

\* What a method returns when it throws
Thrown(e, err, me) == [env |-> e, err |-> err, val |-> NoObj, self |-> me]

\* A constructor that falls back to UTC when zone.isValid gives false
ZoneChecked_FallBack(time, locale, zoneName, v) ==
    [env |-> v.env, err |-> "none",
     val |-> [time |-> time, locale |-> locale,
              zone |-> IF v.val THEN zoneName ELSE UTC, memo |-> EmptyMemo]]

\* The constructor after zone.isValid gave v
ZoneChecked(time, locale, zoneName, v) ==
    IF ~v.val
    THEN [env |-> v.env, err |-> "KronoTimezoneError", val |-> NoObj]
    ELSE [env |-> v.env, err |-> "none",
          val |-> [time |-> time, locale |-> locale, zone |-> zoneName,
                   memo |-> EmptyMemo]]

\* The constructor after validateTimestamp gave err
TimeValidated(env, time, locale, zoneName, err) ==
    IF err # "none" THEN [env |-> env, err |-> err, val |-> NoObj]
    ELSE ZoneChecked(time, locale, zoneName,
                     IF zoneName # UTC THEN IsValid(env, zoneName)
                     ELSE [env |-> env, val |-> TRUE])

\* The private constructor
KronoNew(env, time, locale, zoneName) ==
    TimeValidated(env, time, locale, zoneName, ValidateTimestamp(time))

\* toISOString in a zone other than UTC, r0 the offset of the instant
IsoFormatted(o, r0) ==
    IF ~IsFinite(TimeClip(Minus(o.time, r0.val)))
    THEN [env |-> r0.env, err |-> "RangeError"]
    ELSE [env |-> GetOffset(r0.env, o.time, o.zone).env, err |-> "none"]

\* toISOString, for what a caller that discards the string observes: the
\* offset lookups and the RangeError of Date.prototype.toISOString on an
\* invalid Date
ToISOString(env, o) ==
    IF o.zone = UTC THEN [env |-> env, err |-> "none"]
    ELSE IsoFormatted(o, GetOffset(env, o.time, o.zone))

\* memoize("zoneTime", ...) storing the value computed
ZoneTimeMemoized(o, e, zoneTime) ==
    [env |-> e, val |-> zoneTime,
     self |-> [o EXCEPT !.memo = ("zoneTime" :> zoneTime) @@ @]]

ZoneTimeAt(o, g) == ZoneTimeMemoized(o, g.env, TimeClip(Minus(o.time, g.val)))

\* _getZoneTime, memoized on the receiver
GetZoneTime(env, o) ==
    IF "zoneTime" \in DOMAIN o.memo
    THEN [env |-> env, val |-> o.memo["zoneTime"], self |-> o]
    ELSE IF o.zone = UTC THEN ZoneTimeMemoized(o, env, o.time)
    ELSE ZoneTimeAt(o, GetOffset(env, o.time, o.zone))

\* add building its result with the default locale
AddMoved_DefaultLocale(o, r) == Result(o, KronoNew(r.env, r.val, "en-GB", o.zone))

\* add: new Krono(newTime, this._locale, this._zone)
AddMoved(o, r) == Result(o, KronoNew(r.env, r.val, o.locale, o.zone))

\* add after the debug line evaluated this.toISOString()
AddLogged(o, amount, unit, iso) ==
    IF iso.err # "none" THEN Thrown(iso.env, iso.err, o)
    ELSE AddMoved(o, AddTimeWithDST(iso.env, o.time, amount, unit, o.zone))

\* add
Add(env, o, amount, unit) == AddLogged(o, amount, unit, ToISOString(env, o))

\* subtract
Subtract(env, o, amount, unit) == Add(env, o, -amount, unit)

\* setUTCHours(0, 0, 0, 0)
Hours0(t) == IF ~IsFinite(t) THEN NaN ELSE MakeDate(t.d, 0)

\* The week case: back to Monday, then midnight
TruncWeek(date, dayOfWeek) ==
    Hours0(SetUTCDate(date, getUTCDate(date)
                            - (IF dayOfWeek = 0 THEN 6 ELSE dayOfWeek - 1)))

\* The field setters startOf applies to a Date
TruncDate(date, unit) ==
    IF ~IsFinite(date) THEN NaN
    ELSE CASE unit = "year" ->
                Hours0(MakeDate(MakeDay(getUTCFullYear(date), 0, 1), date.ms))
           [] unit = "month" -> Hours0(SetUTCDate(date, 1))
           [] unit = "week" -> TruncWeek(date, getUTCDay(date))
           [] unit = "day" -> Hours0(date)
           [] unit = "hour" ->
                MakeDate(date.d, MakeTime(getUTCHours(date), 0, 0, 0))
           [] unit = "minute" ->
                MakeDate(date.d,
                         MakeTime(getUTCHours(date), getUTCMinutes(date), 0, 0))
           [] unit = "second" ->
                MakeDate(date.d,
                         MakeTime(getUTCHours(date), getUTCMinutes(date),
                                  getUTCSeconds(date), 0))
           [] OTHER -> date

\* String(n) of a field of a Date, "NaN" when the Date is invalid
FieldText(valid, n) == IF valid THEN NumToStr(n) ELSE <<"N", "a", "N">>

DateStringOf(valid, tt) ==
    FieldText(valid, getUTCFullYear(tt)) \o <<"-">>
    \o PadStart(FieldText(valid, getUTCMonth(tt) + 1), 2) \o <<"-">>
    \o PadStart(FieldText(valid, getUTCDate(tt)), 2) \o <<"T">>
    \o PadStart(FieldText(valid, getUTCHours(tt)), 2) \o <<":">>
    \o PadStart(FieldText(valid, getUTCMinutes(tt)), 2) \o <<":">>
    \o PadStart(FieldText(valid, getUTCSeconds(tt)), 2) \o <<".">>
    \o PadStart(FieldText(valid, getUTCMilliseconds(tt)), 3)

\* The dateString startOf builds from the UTC fields of a Date
DateString(t) == DateStringOf(IsFinite(t), IF IsFinite(t) THEN t ELSE Num(0))

\* The inputs of Krono.create
NoInput == [kind |-> "none", num |-> NaN, str |-> <<>>]

NumberInput(n) == [kind |-> "number", num |-> n, str |-> <<>>]

DateInput(t) == [kind |-> "date", num |-> t, str |-> <<>>]

KronoInput(o) == [kind |-> "krono", num |-> o.time, str |-> <<>>]

StringInput(s) == [kind |-> "string", num |-> NaN, str |-> s]

RECURSIVE Create(_, _, _, _)

\* The Date startOf builds in a zone other than UTC: new Date(Date.UTC(...))
\* of the fields of the zone time, cut down to the unit
ModifiedDate(zonedDate, unit) ==
    IF ~IsFinite(zonedDate) THEN NaN
    ELSE TruncDate(DateUTC(FullYear(getUTCFullYear(zonedDate)),
                           getUTCMonth(zonedDate), getUTCDate(zonedDate),
                           getUTCHours(zonedDate), getUTCMinutes(zonedDate),
                           getUTCSeconds(zonedDate), getUTCMilliseconds(zonedDate)),
                   unit)

\* startOf in a zone other than UTC: Krono.create(dateString, { zone })
StartOfZoned(o, unit, zt) ==
    Result(zt.self,
           Create(zt.env, StringInput(DateString(ModifiedDate(zt.val, unit))),
                  o.locale, o.zone))

\* startOf
StartOf(env, o, unit) ==
    IF o.zone = UTC
    THEN Result(o, KronoNew(env, TruncDate(o.time, unit), o.locale, o.zone))
    ELSE StartOfZoned(o, unit, GetZoneTime(env, o))

\* endOf taking a second off the next start
EndOfStarted_Second(o, b) ==
    IF b.err # "none" THEN Thrown(b.env, b.err, o)
    ELSE Result(o, Subtract(b.env, b.val, 1, "second"))

\* endOf: .subtract(1, "millisecond")
EndOfStarted(o, b) ==
    IF b.err # "none" THEN Thrown(b.env, b.err, o)
    ELSE Result(o, Subtract(b.env, b.val, 1, "millisecond"))

\* endOf: .startOf(unit)
EndOfAdded(o, unit, a) ==
    IF a.err # "none" THEN Thrown(a.env, a.err, o)
    ELSE EndOfStarted(o, StartOf(a.env, a.val, unit))

\* endOf
EndOf(env, o, unit) == EndOfAdded(o, unit, Add(env, o, 1, unit))

\* The value a field getter computes from the civil time of its receiver:
\* NaN when that Date is invalid
FieldOf(date, key) ==
    IF ~IsFinite(date) THEN NaN
    ELSE CASE key = "year"        -> getUTCFullYear(date)
           [] key = "month"       -> getUTCMonth(date) + 1
           [] key = "day"         -> getUTCDate(date)
           [] key = "hour"        -> getUTCHours(date)
           [] key = "minute"      -> getUTCMinutes(date)
           [] key = "second"      -> getUTCSeconds(date)
           [] key = "millisecond" -> getUTCMilliseconds(date)
           [] key = "dayOfWeek"   -> getUTCDay(date)

\* memoize(key, ...) storing the value v a getter computed
FieldMemoized(e, me, key, v) ==
    [env |-> e, val |-> v, self |-> [me EXCEPT !.memo = (key :> v) @@ @]]

GetterZoned(key, zt) == FieldMemoized(zt.env, zt.self, key, FieldOf(zt.val, key))

\* The getters year, month, day, hour, minute, second, millisecond, dayOfWeek
Getter(env, o, key) ==
    IF key \in DOMAIN o.memo
    THEN [env |-> env, val |-> o.memo[key], self |-> o]
    ELSE IF o.zone = UTC THEN FieldMemoized(env, o, key, FieldOf(o.time, key))
    ELSE GetterZoned(key, GetZoneTime(env, o))

\* _parseNaturalLanguage returns the _time of the instance a handler built
NaturalTime(r) ==
    [env |-> r.env, err |-> r.err, val |-> r.val.time, matched |-> TRUE]

\* The weekday handlers: .startOf("day") of the instance moved
NaturalFloored(moved) ==
    IF moved.err # "none" THEN NaturalTime(moved)
    ELSE NaturalTime(StartOf(moved.env, moved.val, "day"))

\* The weekday handlers, g the reading of current.dayOfWeek
NaturalWeekday(handler, targetDay, currentDay, g) ==
    NaturalFloored(IF handler = "nextWeekday"
                   THEN Add(g.env, g.self,
                            IF targetDay > currentDay THEN targetDay - currentDay
                            ELSE 7 - currentDay + targetDay,
                            "day")
                   ELSE Subtract(g.env, g.self,
                                 IF currentDay > targetDay
                                 THEN currentDay - targetDay
                                 ELSE currentDay + 7 - targetDay,
                                 "day"))

NaturalCurrent(m, g) == NaturalWeekday(m.handler, m.day, g.val, g)

\* The handler of the pattern that matched, applied to the instance of now
NaturalHandled(cur, m) ==
    CASE m.handler = "" ->
            [env |-> cur.env, err |-> "none", val |-> NaN, matched |-> FALSE]
      [] m.handler \in {"nextWeekday", "lastWeekday"} ->
            NaturalCurrent(m, Getter(cur.env, cur.val, "dayOfWeek"))
      [] m.handler = "startOf" -> NaturalTime(StartOf(cur.env, cur.val, m.unit))
      [] m.handler = "endOf"   -> NaturalTime(EndOf(cur.env, cur.val, m.unit))

NaturalConstructed(str, cur) ==
    IF cur.err # "none"
    THEN [env |-> cur.env, err |-> cur.err, val |-> NaN, matched |-> FALSE]
    ELSE NaturalHandled(cur, NaturalMatch(str))

\* _parseNaturalLanguage: val is the time, matched FALSE stands for null
ParseNaturalLanguage(env, str, defaultZone) ==
    NaturalConstructed(str, KronoNew(env, env.now, "en-GB", defaultZone))

\* What _parseToTime gives: stage names the stage that returned or threw,
\* validated whether validateDateComponents ran
Parsed(e, err, val, stage, validated) ==
    [env |-> e, err |-> err, val |-> val, stage |-> stage, validated |-> validated]

\* _parseToTime: new Date(str)
ParseLenient(e, isoMatch, parsed) ==
    IF IsFinite(parsed) THEN Parsed(e, "none", parsed, "lenient", isoMatch)
    ELSE Parsed(e, "KronoParseError", NaN, "unrecognized", isoMatch)

\* _parseToTime: a date-time without a zone suffix, read as UTC when the
\* default zone is UTC
ParseUtcDefault(env, e, str, defaultZone, isoMatch, d) ==
    IF defaultZone = UTC /\ UtcDefaultMatch(str) /\ IsFinite(d)
    THEN Parsed(e, "none", d, "utcDefault", isoMatch)
    ELSE ParseLenient(e, isoMatch, DateParse(env.host, env.lenient, str))

\* _parseToTime: ISO_WITH_ZONE_REGEX and validateDateComponents
ParseIso(env, e, str, defaultZone, isoMatch) ==
    IF isoMatch /\ ~ValidDateComponents(IntAt(str, 1, 4), IntAt(str, 6, 2),
                                        IntAt(str, 9, 2))
    THEN Parsed(e, "KronoParseError", NaN, "iso", TRUE)
    ELSE ParseUtcDefault(env, e, str, defaultZone, isoMatch,
                         DateParse(env.host, env.lenient,
                                   ReplaceFirstSpace(str) \o <<"Z">>))

ParseMoved(rel) == Parsed(rel.env, "none", rel.val, "relative", FALSE)

\* _parseToTime: RELATIVE_REGEX
ParseRelative(env, e, str, defaultZone, match) ==
    IF match.matched
    THEN ParseMoved(AddTimeWithDST(e, env.now,
                                   IF Includes(str, W_ago) THEN -match.amount
                                   ELSE match.amount,
                                   match.unit, defaultZone))
    ELSE ParseIso(env, e, str, defaultZone, IsoWithZoneMatch(str))

\* _parseToTime after _parseNaturalLanguage gave nat
ParseNatural(env, str, defaultZone, nat) ==
    IF nat.err # "none" THEN Parsed(nat.env, nat.err, NaN, "natural", FALSE)
    ELSE IF nat.matched THEN Parsed(nat.env, "none", nat.val, "natural", FALSE)
    ELSE ParseRelative(env, nat.env, str, defaultZone,
                       RelativeMatch(ToLowerCase(str)))

\* _parseToTime on the trimmed string str
ParseText(env, str, defaultZone) ==
    IF ToLowerCase(str) = W_now THEN Parsed(env, "none", env.now, "now", FALSE)
    ELSE ParseNatural(env, str, defaultZone,
                      ParseNaturalLanguage(env, str, defaultZone))

\* _parseToTime
ParseToTime(env, input, defaultZone) ==
    CASE input.kind = "none"   -> Parsed(env, "none", env.now, "literal", FALSE)
      [] input.kind = "krono"  -> Parsed(env, "none", input.num, "literal", FALSE)
      [] input.kind = "date"   -> Parsed(env, "none", input.num, "literal", FALSE)
      [] input.kind = "number" ->
            Parsed(env, ValidateTimestamp(input.num), input.num, "literal", FALSE)
      [] OTHER -> ParseText(env, Trim(input.str), defaultZone)

\* Krono.create: new Krono(time, locale, zone) of the time parsed
CreateBuilt(p, k) ==
    [env |-> k.env, err |-> k.err, val |-> k.val, stage |-> p.stage,
     validated |-> p.validated]

CreateParsed(locale, zoneName, p) ==
    IF p.err # "none"
    THEN [env |-> p.env, err |-> p.err, val |-> NoObj, stage |-> p.stage,
          validated |-> p.validated]
    ELSE CreateBuilt(p, KronoNew(p.env, p.val, locale, zoneName))

\* Krono.create
Create(env, input, locale, zoneName) ==
    CreateParsed(locale, zoneName, ParseToTime(env, input, zoneName))

\* The setter of set on the fields of t (the epoch when date is invalid)
SetFields(date, t, unit, value) ==
    IF unit = "year"
    THEN SetUTCFullYear(date, value, getUTCMonth(t), getUTCDate(t))
    ELSE IF ~IsFinite(date) THEN NaN
    ELSE CASE unit = "month" ->
                MakeDate(MakeDay(getUTCFullYear(t), value - 1, getUTCDate(t)),
                         t.ms)
           [] unit = "day" -> SetUTCDate(t, value)
           [] unit = "hour" ->
                MakeDate(t.d, MakeTime(value, getUTCMinutes(t),
                                       getUTCSeconds(t), getUTCMilliseconds(t)))
           [] unit = "minute" ->
                MakeDate(t.d, MakeTime(getUTCHours(t), value,
                                       getUTCSeconds(t), getUTCMilliseconds(t)))
           [] unit = "second" ->
                MakeDate(t.d, MakeTime(getUTCHours(t), getUTCMinutes(t),
                                       value, getUTCMilliseconds(t)))
           [] unit = "millisecond" ->
                MakeDate(t.d, MakeTime(getUTCHours(t), getUTCMinutes(t),
                                       getUTCSeconds(t), value))

\* The field setters set applies to a Date; unit is one of the seven it takes
SetField(date, unit, value) ==
    SetFields(date, IF IsFinite(date) THEN date ELSE Num(0), unit, value)

\* set after _getZoneTime gave zt
SetZoned(o, unit, value, zt) ==
    IF unit \notin (Units \ {"week"}) THEN Thrown(zt.env, "KronoError", zt.self)
    ELSE Result(zt.self,
                Create(zt.env, DateInput(SetField(zt.val, unit, value)),
                       o.locale, o.zone))

\* set
Set(env, o, unit, value) == SetZoned(o, unit, value, GetZoneTime(env, o))

\* tz keeping the zone of the receiver
Tz_KeepZone(env, o, zoneName) == Result(o, KronoNew(env, o.time, o.locale, o.zone))

\* tz
Tz(env, o, zoneName) == Result(o, KronoNew(env, o.time, o.locale, zoneName))

\* utc
Utc(env, o) == Result(o, KronoNew(env, o.time, o.locale, UTC))

\* zone.getSystemZone
GetSystemZone(env) == env.host

\* local
Local(env, o) == Result(o, KronoNew(env, o.time, o.locale, GetSystemZone(env)))


\* ------------------------------------------------------------------
\* Comparison, difference and extremes (index.ts 1141-1152, 1254-1276,
\* 1492-1510).  The calls on several instances take the instances as a
\* sequence os and name them by their index in it.
\* ------------------------------------------------------------------
\* isBefore
IsBefore(a, b) == Lt(a.time, b.time)

\* isAfter
IsAfter(a, b) == Lt(b.time, a.time)

\* Math.floor(delta / mult) for a delta >= 0 and a mult that divides the
\* day or is the week
FloorDiv(delta, mult) ==
    IF mult = MS_PER_WEEK THEN Num(delta.d \div 7)
    ELSE [d  |-> delta.d \div mult,
          ms |-> (delta.d % mult) * (MS_PER_DAY \div mult) + (delta.ms \div mult)]

\* Math.ceil(delta / (days * MS_PER_DAY))
CeilDays(delta, days) ==
    IF delta.ms = 0 THEN -((-delta.d) \div days) ELSE (delta.d \div days) + 1

\* Math.round(delta / MS_PER_DAY): a half rounds up
RoundDays(delta) == IF 2 * delta.ms >= MS_PER_DAY THEN delta.d + 1 ELSE delta.d

\* The instances after the getter read on the i-th gave g
Got(os, i, g) == [env |-> g.env, val |-> g.val, os |-> [os EXCEPT ![i] = g.self]]

\* os[i].year, os[i].month
GetterAt(env, os, i, key) == Got(os, i, Getter(env, os[i], key))

\* diff by year: later.year - earlier.year
DiffYearEnd(y1, y2) == [env |-> y2.env, os |-> y2.os, val |-> Num(y1.val - y2.val)]

DiffYearLater(e, y1) == DiffYearEnd(y1, GetterAt(y1.env, y1.os, e, "year"))

DiffYear(env, os, l, e) == DiffYearLater(e, GetterAt(env, os, l, "year"))

\* diff by month: (later.year - earlier.year) * 12 + (later.month - earlier.month)
DiffMonthEnd(y1, y2, m1, m2) ==
    [env |-> m2.env, os |-> m2.os,
     val |-> Num((y1.val - y2.val) * 12 + (m1.val - m2.val))]

DiffMonthLater(e, y1, y2, m1) ==
    DiffMonthEnd(y1, y2, m1, GetterAt(m1.env, m1.os, e, "month"))

DiffMonthYears(l, e, y1, y2) ==
    DiffMonthLater(e, y1, y2, GetterAt(y2.env, y2.os, l, "month"))

DiffMonthYear(l, e, y1) == DiffMonthYears(l, e, y1, GetterAt(y1.env, y1.os, e, "year"))

DiffMonth(env, os, l, e) == DiffMonthYear(l, e, GetterAt(env, os, l, "year"))

\* diff by a unit that has no multiplier, l the later instance and e the
\* earlier (instances that have a civil time)
DiffOrdered(env, os, l, e, unit) ==
    IF unit = "year" THEN DiffYear(env, os, l, e)
    ELSE IF unit = "month" THEN DiffMonth(env, os, l, e)
    ELSE [env |-> env, os |-> os, val |-> Num(0)]

\* diff with the multiplier of another unit
Diff_OfDays(env, os, i, j, unit) ==
    [env |-> env, os |-> os,
     val |-> FloorDiv(Abs(Minus(os[i].time, os[j].time)), MS_PER_DAY)]

\* os[i].diff(os[j], unit)
Diff(env, os, i, j, unit) ==
    IF InUnitMultipliers(unit)
    THEN [env |-> env, os |-> os,
          val |-> FloorDiv(Abs(Minus(os[i].time, os[j].time)), UnitMultiplier(unit))]
    ELSE IF Lt(os[i].time, os[j].time) THEN DiffOrdered(env, os, j, i, unit)
    ELSE DiffOrdered(env, os, i, j, unit)

\* dates.reduce((min, current) => current.isBefore(min) ? current : min) from
\* the k-th of dates on
RECURSIVE MinFrom(_, _, _, _)
MinFrom(os, dates, k, min) ==
    IF k > Len(dates) THEN min
    ELSE MinFrom(os, dates, k + 1,
                 IF IsBefore(os[dates[k]], os[min]) THEN dates[k] ELSE min)

RECURSIVE MaxFrom(_, _, _, _)
MaxFrom(os, dates, k, max) ==
    IF k > Len(dates) THEN max
    ELSE MaxFrom(os, dates, k + 1,
                 IF IsAfter(os[dates[k]], os[max]) THEN dates[k] ELSE max)

\* Krono.min that keeps the last of the dates
KronoMin_Last(os, dates) ==
    IF dates = <<>> THEN [err |-> "KronoError", val |-> 0]
    ELSE [err |-> "none", val |-> dates[Len(dates)]]

\* Krono.min(...dates): the index of the instance returned
KronoMin(os, dates) ==
    IF dates = <<>> THEN [err |-> "KronoError", val |-> 0]
    ELSE [err |-> "none", val |-> MinFrom(os, dates, 2, dates[1])]

\* Krono.max(...dates)
KronoMax(os, dates) ==
    IF dates = <<>> THEN [err |-> "KronoError", val |-> 0]
    ELSE [err |-> "none", val |-> MaxFrom(os, dates, 2, dates[1])]

\* ------------------------------------------------------------------
\* get(unit) and weekOfYear (index.ts 1068-1074, 1386-1407)
\* ------------------------------------------------------------------
\* What a getter returns to get(unit)
Returned(g) == [env |-> g.env, err |-> "none", val |-> g.val, self |-> g.self]

\* What get(unit) leaves when the call k inside it throws
Raised(k, me) == [env |-> k.env, err |-> k.err, val |-> NaN, self |-> me]

\* weekOfYear after start.startOf("week") returned w
WeekCounted(me, w) ==
    IF w.err # "none" THEN Raised(w, me)
    ELSE Returned(FieldMemoized(w.env, me, "weekOfYear",
                                CeilDays(Minus(me.time, w.val.time), 7)))

\* weekOfYear after this.startOf("year") returned s
WeekStarted(s) ==
    IF s.err # "none" THEN Raised(s, s.self)
    ELSE WeekCounted(s.self, StartOf(s.env, s.val, "week"))

\* weekOfYear
WeekOfYear(env, o) ==
    IF "weekOfYear" \in DOMAIN o.memo
    THEN [env |-> env, err |-> "none", val |-> o.memo["weekOfYear"], self |-> o]
    ELSE WeekStarted(StartOf(env, o, "year"))

\* get(unit) that reads the day for a unit it does not know
GetUnit_DefaultDay(env, o, unit) ==
    IF unit = "week" THEN WeekOfYear(env, o)
    ELSE IF unit \in Units THEN Returned(Getter(env, o, unit))
    ELSE Returned(Getter(env, o, "day"))

\* get(unit)
GetUnit(env, o, unit) ==
    IF unit = "week" THEN WeekOfYear(env, o)
    ELSE IF unit \in Units THEN Returned(Getter(env, o, unit))
    ELSE [env |-> env, err |-> "KronoError", val |-> NaN, self |-> o]

\* ------------------------------------------------------------------
\* format and calendar (index.ts 1321-1358, 1415-1423)
\* ------------------------------------------------------------------
\* The options format starts from
FormatDefaults == [year |-> "numeric", month |-> "long", day |-> "numeric"]

\* format(options): the text Intl.DateTimeFormat gives, as the locale, the
\* fields it shows with their styles, and the civil time of the instant in
\* its zone they are read from
Format(o, options) ==
    [locale |-> o.locale, style |-> options @@ FormatDefaults,
     civil |-> Plus(o.time, Num(EastOffset(o.zone, o.time)))]

\* The options calendar formats with
TimeFormat == [hour |-> "numeric", minute |-> "2-digit"]

WeekdayFormat == [weekday |-> "long"]

DateFormat ==
    [year |-> "numeric", month |-> "short", day |-> "numeric", hour |-> "numeric",
     minute |-> "2-digit"]

\* No text
NoText == [locale |-> "", style |-> <<>>, civil |-> NaN]

\* The string calendar returns for the day difference d: a label, the
\* weekday text and the text after "at" (label "" for the date alone)
CalendarText(o, d) ==
    IF d = 0 THEN [label |-> "Today", dayName |-> NoText, text |-> Format(o, TimeFormat)]
    ELSE IF d = 1
    THEN [label |-> "Tomorrow", dayName |-> NoText, text |-> Format(o, TimeFormat)]
    ELSE IF d = -1
    THEN [label |-> "Yesterday", dayName |-> NoText, text |-> Format(o, TimeFormat)]
    ELSE IF d > 1 /\ d < 7
    THEN [label |-> "Weekday", dayName |-> Format(o, WeekdayFormat),
          text |-> Format(o, TimeFormat)]
    ELSE IF d < -1 /\ d > -7
    THEN [label |-> "Last", dayName |-> Format(o, WeekdayFormat),
          text |-> Format(o, TimeFormat)]
    ELSE [label |-> "", dayName |-> NoText, text |-> Format(o, DateFormat)]

\* A calendar that rounds the day difference down
CalendarStarts_Floor(ts, rs) ==
    IF rs.err # "none" THEN Thrown(rs.env, rs.err, ts.self)
    ELSE [env |-> rs.env, err |-> "none", self |-> ts.self,
          val |-> CalendarText(ts.self, Minus(ts.val.time, rs.val.time).d)]

\* calendar after both startOf("day") returned, ts for this and rs for the
\* reference
CalendarStarts(ts, rs) ==
    IF rs.err # "none" THEN Thrown(rs.env, rs.err, ts.self)
    ELSE [env |-> rs.env, err |-> "none", self |-> ts.self,
          val |-> CalendarText(ts.self, RoundDays(Minus(ts.val.time, rs.val.time)))]

\* calendar after this.startOf("day") returned ts
CalendarStarted(reference, ts) ==
    IF ts.err # "none" THEN Thrown(ts.env, ts.err, ts.self)
    ELSE CalendarStarts(ts, StartOf(ts.env, reference, "day"))

\* calendar after tz(this._zone) returned c
CalendarConverted(o, c) ==
    IF c.err # "none" THEN Thrown(c.env, c.err, o)
    ELSE CalendarStarted(c.val, StartOf(c.env, o, "day"))

\* calendar after the reference r was taken
CalendarReferred(o, r) ==
    IF r.err # "none" THEN Thrown(r.env, r.err, o)
    ELSE CalendarConverted(o, Tz(r.env, r.val, o.zone))

\* calendar(referenceTime), given when there is a referenceTime
Calendar(env, o, given, referenceTime) ==
    CalendarReferred(o, IF given THEN [env |-> env, err |-> "none", val |-> referenceTime]
                        ELSE Create(env, NoInput, "en-GB", UTC))

\* ------------------------------------------------------------------
\* dayOfYear and isDST (index.ts 1057-1062, 1110-1130)
\* ------------------------------------------------------------------
\* dayOfYear after this.startOf("year") returned s
DayCounted(s) ==
    IF s.err # "none" THEN Raised(s, s.self)
    ELSE Returned(FieldMemoized(s.env, s.self, "dayOfYear",
                                CeilDays(Minus(s.self.time, s.val.time), 1) + 1))

\* dayOfYear
DayOfYear(env, o) ==
    IF "dayOfYear" \in DOMAIN o.memo
    THEN [env |-> env, err |-> "none", val |-> o.memo["dayOfYear"], self |-> o]
    ELSE DayCounted(StartOf(env, o, "year"))

\* offset / MS_PER_MINUTE, as the whole minutes and the milliseconds left
InMinutes(r) ==
    [env |-> r.env,
     val |-> [min |-> r.val.d * (MS_PER_DAY \div MS_PER_MINUTE) + (r.val.ms \div MS_PER_MINUTE),
              rem |-> r.val.ms % MS_PER_MINUTE]]

\* zone.getOffsetInMinutes
GetOffsetInMinutes(env, t, z) == InMinutes(GetOffset(env, t, z))

\* Math.min of two offsets in minutes
MinMinutes(a, b) ==
    IF a.min < b.min \/ (a.min = b.min /\ a.rem <= b.rem) THEN a ELSE b

\* isDST once the three offsets are known
DSTCompared(me, janOffset, julOffset, cur) ==
    Returned(FieldMemoized(cur.env, me, "isDST",
                           cur.val = MinMinutes(janOffset.val, julOffset.val)))

DSTJuly(me, janOffset, julOffset) ==
    DSTCompared(me, janOffset, julOffset,
                GetOffsetInMinutes(julOffset.env, me.time, me.zone))

\* isDST after the offset of jan is known, y the second reading of this.year
DSTJanuary(host, y, janOffset) ==
    DSTJuly(y.self, janOffset,
            GetOffsetInMinutes(janOffset.env, DateLocal(host, y.val, 6, 1), y.self.zone))

\* isDST after jan was built, y the second reading of this.year
DSTYears(host, jan, y) ==
    DSTJanuary(host, y, GetOffsetInMinutes(y.env, jan, y.self.zone))

\* isDST after this.year was read for jan (an instance that has a civil
\* time)
DSTYear(host, y) ==
    DSTYears(host, DateLocal(host, y.val, 0, 1), Getter(y.env, y.self, "year"))

\* isDST
IsDST(env, o) ==
    IF "isDST" \in DOMAIN o.memo
    THEN [env |-> env, err |-> "none", val |-> o.memo["isDST"], self |-> o]
    ELSE DSTYear(env.host, Getter(env, o, "year"))
\* ------------------------------------------------------------------
\* The state machine
\* ------------------------------------------------------------------
VARIABLES
    hostZone,     \* the zone of the host system
    lenientDays,  \* whether the platform's date parser rolls days over
    offsetCache,  \* _offsetCache
    validZones,   \* _validZoneCache
    objs,         \* the Krono instances created so far, in creation order
    last,         \* the last call: its arguments and its outcome
    steps         \* the number of calls made

vars == <<hostZone, lenientDays, offsetCache, validZones, objs, last, steps>>

\* The number of calls of a behaviour
MaxSteps == 2

\* Date.UTC with a 1-based month, for writing the inputs
At(y, m, d, h, mi, sec, ms) == DateUTC(y, m - 1, d, h, mi, sec, ms)

\* The zones a host system is in
HostZones == {UTC, Tokyo, NewYork}

\* The zone option of a call
Zones == {UTC, Tokyo, NewYork, BadZone}

\* The locale option of a call: one that is not the default
Locales == {"fr-FR"}

\* The readings of the clock: a Sunday
NowSet == {At(2025, 6, 15, 10, 20, 30, 400)}

\* The finite timestamps given to krono()
Times ==
    { At(2025, 1, 31, 12, 34, 56, 789),
      At(2024, 1, 31, 2, 30, 0, 0),
      At(2024, 2, 29, 23, 59, 59, 999),
      At(2025, 3, 9, 3, 15, 0, 0),
      MAX_TIME,
      Minus(Num(0), MAX_TIME) }

\* The numbers given to krono(): 8640000000000001 and -1 among them
Numbers == Times \cup {NaN, Infinity, Plus(MAX_TIME, Num(1)), Num(-1)}

\* YYYY-MM-DD
DateText(y, m, d) ==
    PadStart(NatToStr(y), 4) \o <<"-">> \o PadStart(NatToStr(m), 2) \o <<"-">>
        \o PadStart(NatToStr(d), 2)

\* HH:MM:SS
ClockText(h, mi, sec) ==
    PadStart(NatToStr(h), 2) \o <<":">> \o PadStart(NatToStr(mi), 2) \o <<":">>
        \o PadStart(NatToStr(sec), 2)

\* The strings given to krono() between other calls: an ISO date-time with Z,
\* "now", a date the calendar does not have, and a word that is no date
Strings ==
    { DateText(2025, 1, 31) \o <<"T">> \o ClockText(12, 34, 56)
          \o <<".", "7", "8", "9", "Z">>,
      <<"n", "o", "w">>,
      DateText(2025, 2, 30),
      <<"s", "o", "o", "n">> }

\* The amounts given to add
Amounts == {-1, 1, 13}

\* The amounts given to subtract
SubtractAmounts == {1}

\* The units given to the calls: the eight of TimeUnit and one that is none
UnitArgs == Units \cup {"fortnight"}

\* The values given to set
SetValues == {5}

\* The getters read
GetKeys ==
    {"year", "month", "day", "hour", "minute", "second", "millisecond", "dayOfWeek"}

Env(now) == MkEnv(offsetCache, validZones, hostZone, lenientDays, now)

\* Date.now() of the calls that read the clock and discard the reading
AnyNow == CHOOSE t \in NowSet : TRUE

NoCall ==
    [op |-> "init", recv |-> 0, unit |-> "", amount |-> 0, zone |-> "",
     input |-> NoInput, err |-> "none", res |-> 0, val |-> 0,
     stage |-> "", validated |-> FALSE]

\* The environment and the instances after a call that returned r
Commit(r, recv, call) ==
    /\ offsetCache' = r.env.oc
    /\ validZones' = r.env.vz
    /\ LET kept == IF recv = 0 THEN objs ELSE [objs EXCEPT ![recv] = r.self]
       IN  objs' = IF r.err = "none" THEN Append(kept, r.val) ELSE kept
    /\ last' = [call EXCEPT !.recv = recv, !.err = r.err,
                            !.res = IF r.err = "none" THEN Len(objs) + 1 ELSE 0]
    /\ steps' = steps + 1
    /\ UNCHANGED <<hostZone, lenientDays>>

\* The same after krono(input, {zone}) returned r
CommitCreate(r, input, zoneName) ==
    Commit(r, 0, [NoCall EXCEPT !.op = "create", !.zone = zoneName, !.input = input,
                               !.stage = r.stage, !.validated = r.validated])

\* The same after a getter returned g
CommitGet(g, recv, key) ==
    /\ offsetCache' = g.env.oc
    /\ validZones' = g.env.vz
    /\ objs' = [objs EXCEPT ![recv] = g.self]
    /\ last' = [NoCall EXCEPT !.op = "get", !.recv = recv, !.unit = key,
                              !.val = g.val]
    /\ steps' = steps + 1
    /\ UNCHANGED <<hostZone, lenientDays>>

Init ==
    /\ hostZone \in HostZones
    /\ lenientDays = TRUE
    /\ offsetCache = <<>>
    /\ validZones = {}
    /\ objs = <<>>
    /\ last = NoCall
    /\ steps = 0

\* krono(input, {locale, zone}) on a number, a native Date, a string, an
\* instance or nothing.  A behaviour takes one instance from outside and derives the others.
DoCreate ==
    /\ steps < MaxSteps
    /\ \E now \in NowSet, zoneName \in Zones, locale \in Locales :
       \E input \in IF objs = <<>>
                    THEN {NoInput, DateInput(NaN)} \cup {NumberInput(n) : n \in Numbers}
                         \cup {StringInput(str) : str \in Strings}
                    ELSE {KronoInput(objs[i]) : i \in 1..Len(objs)} :
          CommitCreate(Create(Env(now), input, locale, zoneName), input, zoneName)

DoAdd ==
    /\ steps < MaxSteps
    /\ \E i \in 1..Len(objs), amount \in Amounts, unit \in UnitArgs :
          Commit(Add(Env(AnyNow), objs[i], amount, unit), i,
                 [NoCall EXCEPT !.op = "add", !.unit = unit, !.amount = amount])

DoSubtract ==
    /\ steps < MaxSteps
    /\ \E i \in 1..Len(objs), amount \in SubtractAmounts, unit \in UnitArgs :
          Commit(Subtract(Env(AnyNow), objs[i], amount, unit), i,
                 [NoCall EXCEPT !.op = "subtract", !.unit = unit, !.amount = amount])

DoStartOf ==
    /\ steps < MaxSteps
    /\ \E i \in 1..Len(objs), unit \in UnitArgs :
          Commit(StartOf(Env(AnyNow), objs[i], unit), i,
                 [NoCall EXCEPT !.op = "startOf", !.unit = unit])

DoEndOf ==
    /\ steps < MaxSteps
    /\ \E i \in 1..Len(objs), unit \in UnitArgs :
          Commit(EndOf(Env(AnyNow), objs[i], unit), i,
                 [NoCall EXCEPT !.op = "endOf", !.unit = unit])

DoSet ==
    /\ steps < MaxSteps
    /\ \E i \in 1..Len(objs), unit \in UnitArgs, value \in SetValues :
          Commit(Set(Env(AnyNow), objs[i], unit, value), i,
                 [NoCall EXCEPT !.op = "set", !.unit = unit, !.amount = value])

DoGet ==
    /\ steps < MaxSteps
    /\ \E i \in 1..Len(objs), key \in GetKeys :
          CommitGet(Getter(Env(AnyNow), objs[i], key), i, key)

DoTz ==
    /\ steps < MaxSteps
    /\ \E i \in 1..Len(objs), zoneName \in Zones :
          Commit(Tz(Env(AnyNow), objs[i], zoneName), i,
                 [NoCall EXCEPT !.op = "tz", !.zone = zoneName])

DoUtc ==
    /\ steps < MaxSteps
    /\ \E i \in 1..Len(objs) :
          Commit(Utc(Env(AnyNow), objs[i]), i, [NoCall EXCEPT !.op = "utc"])

DoLocal ==
    /\ steps < MaxSteps
    /\ \E i \in 1..Len(objs) :
          Commit(Local(Env(AnyNow), objs[i]), i, [NoCall EXCEPT !.op = "local"])

Next ==
    \/ DoCreate
    \/ DoAdd
    \/ DoSubtract
    \/ DoStartOf
    \/ DoEndOf
    \/ DoSet
    \/ DoGet
    \/ DoTz
    \/ DoUtc
    \/ DoLocal

Spec == Init /\ [][Next]_vars
\* ------------------------------------------------------------------
\* The parsing pipeline on its own: one call of krono(string, {zone})
\* ------------------------------------------------------------------
\* What follows the date in the date-time strings
TimeSuffixes ==
    { <<"T">> \o ClockText(10, 0, 0),
      <<" ">> \o ClockText(10, 0, 0),
      <<"T", "1", "0", ":", "0", "0">>,
      <<"T">> \o ClockText(10, 0, 0) \o <<".", "1", "2", "3">>,
      <<"T">> \o ClockText(10, 0, 0) \o <<"Z">>,
      <<"T">> \o ClockText(10, 0, 0) \o <<"+", "0", "9", ":", "0", "0">>,
      <<" ">> \o ClockText(10, 0, 0) \o <<"Z">> }

ParseYears == {1900, 2000, 2024, 2025}

ParseMonths == {0, 1, 2, 4, 12, 13}

ParseDays == {0, 1, 28, 29, 30, 31, 32}

\* The date-only strings
DateOnlyStrings ==
    {DateText(y, m, d) : y \in ParseYears, m \in ParseMonths, d \in ParseDays}

\* The date-time strings: dates the calendar has and dates it does not
DateTimeStrings ==
    {dt \o suffix :
        dt \in {DateText(2025, 2, 28), DateText(2025, 2, 30), DateText(2024, 2, 29),
                DateText(2025, 4, 31), DateText(2025, 13, 1)},
        suffix \in TimeSuffixes}

ParseStrings == DateOnlyStrings \cup DateTimeStrings \cup Strings

InitParse ==
    /\ hostZone \in HostZones
    /\ lenientDays \in BOOLEAN
    /\ offsetCache = <<>>
    /\ validZones = {}
    /\ objs = <<>>
    /\ last \in {[NoCall EXCEPT !.input = StringInput(str), !.zone = zoneName] :
                    str \in ParseStrings, zoneName \in Zones}
    /\ steps = 0

\* krono(string, {locale, zone}) on the string and zone the behaviour started with
DoParse ==
    /\ steps = 0
    /\ last.op = "init"
    /\ last.input.kind = "string"
    /\ \E now \in NowSet, locale \in Locales :
          CommitCreate(Create(Env(now), last.input, locale, last.zone),
                       last.input, last.zone)

NextParse == DoParse

SpecParse == InitParse /\ [][NextParse]_vars

\* ------------------------------------------------------------------
\* The zone utilities called directly, among constructions and conversions
\* ------------------------------------------------------------------
\* The environment after a zone utility returned r; n is what the call counts
\* for among the steps
CommitZone(r, op, t, zoneName, n) ==
    /\ offsetCache' = r.env.oc
    /\ validZones' = r.env.vz
    /\ last' = [NoCall EXCEPT !.op = op, !.zone = zoneName, !.input = NumberInput(t),
                              !.val = r.val, !.stage = r.how]
    /\ steps' = steps + n
    /\ UNCHANGED <<hostZone, lenientDays, objs>>

\* zone.getOffset(t, zoneName)
DoGetOffset ==
    /\ steps < MaxSteps
    /\ \E t \in Numbers, zoneName \in Zones :
          CommitZone(GetOffset(Env(AnyNow), t, zoneName), "getOffset", t, zoneName, 1)

\* zone.isValid(zoneName)
DoIsValid ==
    /\ steps < MaxSteps
    /\ \E zoneName \in Zones :
          CommitZone(IsValid(Env(AnyNow), zoneName), "isValid", NaN, zoneName, 1)

NextZone == DoGetOffset \/ DoIsValid \/ DoCreate \/ DoTz

SpecZone == Init /\ [][NextZone]_vars

\* ------------------------------------------------------------------
\* Offset lookups over more zones than the offset cache holds
\* ------------------------------------------------------------------
\* Whether the cache c has an entry for the zone
Cached(c, zoneName) == \E i \in 1..Len(c) : c[i].zone = zoneName

\* The number of the last of the further zones looked up: the highest one
\* cached, 0 when there is none
FreshCount(c) ==
    CHOOSE k \in 0..MaxZones :
        /\ k = 0 \/ Cached(c, MoreZone(k))
        /\ \A j \in (k + 1)..MaxZones : ~Cached(c, MoreZone(j))

\* The timestamps of the lookups
LookupTimes == {At(2025, 1, 31, 12, 34, 56, 789), At(2025, 3, 9, 3, 15, 0, 0)}

\* zone.getOffset on a zone not looked up before
DoFill ==
    /\ FreshCount(offsetCache) < MaxZones
    /\ \E t \in {At(2025, 1, 31, 12, 34, 56, 789)} :
          CommitZone(GetOffset(Env(AnyNow), t, MoreZone(FreshCount(offsetCache) + 1)),
                     "getOffset", t, MoreZone(FreshCount(offsetCache) + 1), 0)

\* The places in the cache of the zones looked up again: the least recently
\* used one, the one after it and the most recently used one
TouchSlots == {1, 2, OffsetCacheMax}

\* The timestamps of the lookups on a cached zone: one the bucket holds, one
\* it does not, and one the oracle fails for
TouchTimes == LookupTimes \cup {NaN}

\* zone.getOffset on a zone of a full cache
DoTouch ==
    /\ steps < MaxSteps
    /\ Len(offsetCache) = OffsetCacheMax
    /\ \E i \in TouchSlots, t \in TouchTimes :
          CommitZone(GetOffset(Env(AnyNow), t, offsetCache[i].zone),
                     "getOffset", t, offsetCache[i].zone, 1)

\* The lookups the oracle fails for, n zones looked up so far: an identifier
\* it rejects, and a zone not looked up before at a timestamp that is no date
MissCalls(n) ==
    {[t |-> At(2025, 1, 31, 12, 34, 56, 789), zone |-> BadZone],
     [t |-> NaN, zone |-> MoreZone(n + 1)]}

\* zone.getOffset failing on a zone a full cache does not hold
DoMiss ==
    /\ steps < MaxSteps
    /\ Len(offsetCache) = OffsetCacheMax
    /\ \E c \in MissCalls(FreshCount(offsetCache)) :
          CommitZone(GetOffset(Env(AnyNow), c.t, c.zone), "getOffset", c.t, c.zone, 1)

NextCache == DoFill \/ DoTouch \/ DoMiss

SpecCache == Init /\ [][NextCache]_vars

\* ------------------------------------------------------------------
\* krono(string) on weekday phrases and relative expressions, at several
\* readings of the clock
\* ------------------------------------------------------------------
\* The readings of the clock: the seven days from Sunday 2025-06-15 at
\* 10:20:30.400 UTC, and an evening that is already Monday in Tokyo
WeekNows ==
    {At(2025, 6, 15 + k, 10, 20, 30, 400) : k \in 0..6} \cup {At(2025, 6, 15, 20, 0, 0, 0)}

\* "next <weekday>" and "last <weekday>" for the seven weekdays (dir 1 and
\* -1, day the weekday counted from Sunday = 0), two of them in other letter
\* cases
WeekdayCases ==
    {[str |-> W_next \o <<" ">> \o WeekdayNames[i], dir |-> 1, day |-> i - 1] : i \in 1..7}
    \cup {[str |-> W_last \o <<" ">> \o WeekdayNames[i], dir |-> -1, day |-> i - 1] : i \in 1..7}
    \cup {[str |-> <<"N", "e", "x", "t", " ", "M", "O", "N", "D", "A", "Y">>, dir |-> 1, day |-> 1],
          [str |-> <<"L", "A", "S", "T", " ", "F", "r", "i", "d", "a", "y">>, dir |-> -1, day |-> 5]}

\* Relative expressions with the amount, the unit and the direction they
\* name (ago: the word "ago" is in the string, in any letter case)
RelativeCases ==
    { [str |-> <<"3", " ", "d", "a", "y", "s", " ", "a", "g", "o">>,
       amount |-> 3, unit |-> "day", ago |-> TRUE],
      [str |-> <<"3", " ", "D", "A", "Y", "S", " ", "A", "G", "O">>,
       amount |-> 3, unit |-> "day", ago |-> TRUE],
      [str |-> <<"3", " ", "D", "a", "y", "s", " ", "A", "g", "o">>,
       amount |-> 3, unit |-> "day", ago |-> TRUE],
      [str |-> <<"i", "n", " ", "2", " ", "h", "o", "u", "r", "s">>,
       amount |-> 2, unit |-> "hour", ago |-> FALSE],
      [str |-> <<"I", "N", " ", "2", " ", "H", "O", "U", "R", "S">>,
       amount |-> 2, unit |-> "hour", ago |-> FALSE],
      [str |-> <<"1", " ", "m", "o", "n", "t", "h", " ", "f", "r", "o", "m", " ", "n", "o", "w">>,
       amount |-> 1, unit |-> "month", ago |-> FALSE],
      [str |-> <<"2", " ", "w", "e", "e", "k", "s", " ", "a", "g", "o">>,
       amount |-> 2, unit |-> "week", ago |-> TRUE],
      [str |-> <<"1", " ", "y", "e", "a", "r">>,
       amount |-> 1, unit |-> "year", ago |-> FALSE],
      [str |-> <<"1", "0", " ", "M", "i", "n", "u", "t", "e", "s", " ", "A", "G", "O">>,
       amount |-> 10, unit |-> "minute", ago |-> TRUE],
      [str |-> <<"4", "5", " ", "s", "e", "c", "o", "n", "d", "s", " ", "a", "g", "o">>,
       amount |-> 45, unit |-> "second", ago |-> TRUE] }

NaturalStrings == {c.str : c \in WeekdayCases} \cup {c.str : c \in RelativeCases}

InitNatural ==
    /\ hostZone \in HostZones
    /\ lenientDays = TRUE
    /\ offsetCache = <<>>
    /\ validZones = {}
    /\ objs = <<>>
    /\ last \in {[NoCall EXCEPT !.input = StringInput(str), !.zone = zoneName, !.val = now] :
                    str \in NaturalStrings, zoneName \in Zones, now \in WeekNows}
    /\ steps = 0

\* After krono(string, {locale, zone}) returned r, the reading of the clock
\* kept in last.val
CommitParsed(r) ==
    Commit(r, 0, [last EXCEPT !.op = "create", !.stage = r.stage,
                              !.validated = r.validated])

\* krono(string, {locale, zone}) on the string and zone the behaviour started
\* with, the clock reading last.val
DoParseAt ==
    /\ steps = 0
    /\ last.op = "init"
    /\ last.input.kind = "string"
    /\ \E locale \in Locales :
          CommitParsed(Create(Env(last.val), last.input, locale, last.zone))

NextNatural == DoParseAt

SpecNatural == InitNatural /\ [][NextNatural]_vars

\* ------------------------------------------------------------------
\* Calls on two instances constructed beforehand
\* ------------------------------------------------------------------
\* The timestamps of the first instance: the clock reading, the days 1, 3
\* and 7 after it and 1 and 5 before it, an evening that is the next day in
\* Tokyo, and a night New York changes its offset in
PairTimes ==
    {At(2025, 6, 15 + k, 10, 20, 30, 400) : k \in {-5, -1, 0, 1, 3, 7}}
    \cup {At(2025, 6, 15, 20, 0, 0, 0), At(2025, 3, 9, 3, 15, 0, 0)}

\* The timestamps of the second instance: the clock reading, the evening of
\* its day, and the day after New York changed its offset
OtherTimes ==
    {At(2025, 6, 15, 10, 20, 30, 400), At(2025, 6, 15, 20, 0, 0, 0),
     At(2025, 3, 10, 12, 0, 0, 0)}

\* krono(t, { zone: zoneName })
Instance(t, zoneName) ==
    [time |-> t, locale |-> "en-GB", zone |-> zoneName, memo |-> EmptyMemo]

InitPair ==
    /\ hostZone \in HostZones
    /\ lenientDays = TRUE
    /\ offsetCache = <<>>
    /\ objs \in {<<Instance(t1, z1), Instance(t2, z2)>> :
                    t1 \in PairTimes, z1 \in HostZones, t2 \in OtherTimes, z2 \in {UTC, Tokyo}}
    /\ validZones = {objs[1].zone, objs[2].zone} \ {UTC}
    /\ last = NoCall
    /\ steps = 0

\* The calls of a behaviour
MaxCalls == 1

\* The longest list given to min and max
MaxDates == 3

\* The lists of at most n of the instances, by index
RECURSIVE DateLists(_)
DateLists(n) ==
    IF n = 0 THEN {<<>>}
    ELSE DateLists(n - 1)
         \cup {Append(l, i) : l \in {m \in DateLists(n - 1) : Len(m) = n - 1},
                              i \in 1..Len(objs)}

\* The list given to min or max
ListInput(dates) == [kind |-> "list", num |-> NaN, str |-> dates]

\* After objs[i].diff(objs[j], unit) returned r; last.amount is j
CommitDiff(r, i, j, unit) ==
    /\ offsetCache' = r.env.oc
    /\ validZones' = r.env.vz
    /\ objs' = r.os
    /\ last' = [NoCall EXCEPT !.op = "diff", !.recv = i, !.amount = j, !.unit = unit,
                              !.val = r.val]
    /\ steps' = steps + 1
    /\ UNCHANGED <<hostZone, lenientDays>>

\* After Krono.min or Krono.max returned r; last.res is the index of the
\* instance returned
CommitExtreme(r, op, dates) ==
    /\ last' = [NoCall EXCEPT !.op = op, !.input = ListInput(dates), !.err = r.err,
                              !.res = r.val]
    /\ steps' = steps + 1
    /\ UNCHANGED <<hostZone, lenientDays, offsetCache, validZones, objs>>

DoDiff ==
    /\ steps < MaxCalls
    /\ \E i \in 1..Len(objs), j \in 1..Len(objs), unit \in UnitArgs :
          CommitDiff(Diff(Env(AnyNow), objs, i, j, unit), i, j, unit)

DoMin ==
    /\ steps < MaxCalls
    /\ \E dates \in DateLists(MaxDates) : CommitExtreme(KronoMin(objs, dates), "min", dates)

DoMax ==
    /\ steps < MaxCalls
    /\ \E dates \in DateLists(MaxDates) : CommitExtreme(KronoMax(objs, dates), "max", dates)

NextPair == DoDiff \/ DoMin \/ DoMax

SpecPair == InitPair /\ [][NextPair]_vars

\* ------------------------------------------------------------------
\* get, set and calendar on either of the two instances
\* ------------------------------------------------------------------
\* The units given to set: one it sets, the week, and a unit that is none
SetUnits == {"day", "week", "fortnight"}

\* The units given to get: two it reads, the week, and two that are none
GetUnits == {"year", "hour", "week", "fortnight", "dayOfWeek"}

\* After get(unit) or calendar(reference) returned g; last.amount is the index
\* of the reference, 0 when there is none
CommitValue(g, op, recv, unit, j) ==
    /\ offsetCache' = g.env.oc
    /\ validZones' = g.env.vz
    /\ objs' = [objs EXCEPT ![recv] = g.self]
    /\ last' = [NoCall EXCEPT !.op = op, !.recv = recv, !.unit = unit, !.amount = j,
                              !.err = g.err, !.val = g.val]
    /\ steps' = steps + 1
    /\ UNCHANGED <<hostZone, lenientDays>>

DoGetUnit ==
    /\ steps < MaxCalls
    /\ \E i \in 1..Len(objs), unit \in GetUnits :
          CommitValue(GetUnit(Env(AnyNow), objs[i], unit), "getUnit", i, unit, 0)

DoSetUnit ==
    /\ steps < MaxCalls
    /\ \E i \in 1..Len(objs), unit \in SetUnits, value \in SetValues :
          Commit(Set(Env(AnyNow), objs[i], unit, value), i,
                 [NoCall EXCEPT !.op = "set", !.unit = unit, !.amount = value])

\* calendar(objs[j]), and calendar() for j = 0
DoCalendar ==
    /\ steps < MaxCalls
    /\ \E i \in 1..Len(objs), j \in 0..Len(objs), now \in NowSet :
          CommitValue(Calendar(Env(now), objs[i], j # 0, IF j = 0 THEN NoObj ELSE objs[j]),
                      "calendar", i, "", j)

NextUnit == DoGetUnit \/ DoSetUnit \/ DoCalendar

SpecUnit == InitPair /\ [][NextUnit]_vars

\* ------------------------------------------------------------------
\* dayOfYear, isDST and additions of days on one instance constructed
\* beforehand
\* ------------------------------------------------------------------
\* The timestamps of the instance: the first instant, the noon and the evening
\* of January 1st, the last millisecond of a leap year, the noon of December
\* 31st, a day of January and one of July, and the mornings before New York
\* changes its offset in March and in November
OneTimes ==
    { At(2025, 1, 1, 0, 0, 0, 0), At(2025, 1, 1, 12, 0, 0, 0),
      At(2025, 1, 1, 20, 0, 0, 0), At(2024, 12, 31, 23, 59, 59, 999),
      At(2025, 12, 31, 12, 0, 0, 0), At(2025, 1, 31, 12, 34, 56, 789),
      At(2025, 7, 15, 12, 0, 0, 0), At(2025, 3, 8, 9, 0, 0, 0),
      At(2025, 3, 8, 17, 0, 0, 0), At(2025, 11, 1, 8, 30, 0, 0) }

InitOne ==
    /\ hostZone \in HostZones
    /\ lenientDays = TRUE
    /\ offsetCache = <<>>
    /\ objs \in {<<Instance(t, z)>> : t \in OneTimes, z \in HostZones}
    /\ validZones = {objs[1].zone} \ {UTC}
    /\ last = NoCall
    /\ steps = 0

\* The days and weeks added
DayAmounts == {-1, 1, 2}

DoDayOfYear ==
    /\ steps < MaxCalls
    /\ \E i \in 1..Len(objs) :
          CommitValue(DayOfYear(Env(AnyNow), objs[i]), "dayOfYear", i, "", 0)

DoIsDST ==
    /\ steps < MaxCalls
    /\ \E i \in 1..Len(objs) :
          CommitValue(IsDST(Env(AnyNow), objs[i]), "isDST", i, "", 0)

\* add(amount, "day") and add(amount, "week")
DoAddDays ==
    /\ steps < MaxCalls
    /\ \E i \in 1..Len(objs), amount \in DayAmounts, unit \in {"day", "week"} :
          Commit(Add(Env(AnyNow), objs[i], amount, unit), i,
                 [NoCall EXCEPT !.op = "add", !.unit = unit, !.amount = amount])

NextOne == DoDayOfYear \/ DoIsDST \/ DoAddDays

SpecOne == InitOne /\ [][NextOne]_vars

\* ------------------------------------------------------------------
\* The DST utilities called directly
\* ------------------------------------------------------------------
\* The timestamps given: half an hour before New York leaves its standard
\* time, the instant it does, half an hour before it returns to it, two hours
\* after, a day of January, and a number that is no date
DSTTimes ==
    { At(2025, 3, 9, 6, 30, 0, 0), At(2025, 3, 9, 7, 0, 0, 0),
      At(2025, 11, 2, 5, 30, 0, 0), At(2025, 11, 2, 8, 0, 0, 0),
      At(2025, 1, 31, 12, 34, 56, 789), NaN }

DSTPreferences == {"later", "earlier"}

\* The units of the additions that go through the civil fields
CivilUnits == {"day", "month"}

\* The environment after a DST utility returned r
CommitDST(r, call) ==
    /\ offsetCache' = r.env.oc
    /\ validZones' = r.env.vz
    /\ last' = [call EXCEPT !.val = r.val]
    /\ steps' = steps + 1
    /\ UNCHANGED <<hostZone, lenientDays, objs>>

\* zone.handleDSTAmbiguity(t, zoneName, preference)
DoHandleDST ==
    /\ steps < MaxCalls
    /\ \E t \in DSTTimes, zoneName \in Zones, preference \in DSTPreferences :
          CommitDST(HandleDSTAmbiguity(Env(AnyNow), t, zoneName, preference),
                    [NoCall EXCEPT !.op = "handleDSTAmbiguity", !.zone = zoneName,
                                   !.input = NumberInput(t), !.stage = preference])

\* zone.addTimeWithDST(t, 1, unit, zoneName)
DoAddTime ==
    /\ steps < MaxCalls
    /\ \E t \in DSTTimes, zoneName \in Zones, unit \in CivilUnits :
          CommitDST(AddTimeWithDST(Env(AnyNow), t, 1, unit, zoneName),
                    [NoCall EXCEPT !.op = "addTimeWithDST", !.zone = zoneName,
                                   !.input = NumberInput(t), !.unit = unit,
                                   !.amount = 1])

NextAmbiguity == DoHandleDST \/ DoAddTime

SpecAmbiguity == Init /\ [][NextAmbiguity]_vars

\* ------------------------------------------------------------------
\* diff by month and by year on two instances around the turn of a year
\* ------------------------------------------------------------------
\* The timestamps of the two instances: two evenings of December 31st, the
\* second of them January 1st in Tokyo only and the first in neither zone
\* west of it, an evening of January 31st, and a day of March
TurnTimes ==
    { At(2024, 12, 31, 12, 0, 0, 0), At(2024, 12, 31, 20, 0, 0, 0),
      At(2025, 1, 31, 20, 0, 0, 0), At(2025, 3, 15, 12, 0, 0, 0) }

InitTurn ==
    /\ hostZone \in HostZones
    /\ lenientDays = TRUE
    /\ offsetCache = <<>>
    /\ objs \in {<<Instance(t1, z1), Instance(t2, z2)>> :
                    t1 \in TurnTimes, z1 \in HostZones, t2 \in TurnTimes, z2 \in HostZones}
    /\ validZones = {objs[1].zone, objs[2].zone} \ {UTC}
    /\ last = NoCall
    /\ steps = 0

\* objs[i].diff(objs[j], "month") and objs[i].diff(objs[j], "year")
DoDiffCivil ==
    /\ steps < MaxCalls
    /\ \E i \in 1..Len(objs), j \in 1..Len(objs), unit \in {"month", "year"} :
          CommitDiff(Diff(Env(AnyNow), objs, i, j, unit), i, j, unit)

NextTurn == DoDiffCivil

SpecTurn == InitTurn /\ [][NextTurn]_vars

\* ------------------------------------------------------------------
\* Properties
\* ------------------------------------------------------------------
\* The civil time the zone z keeps at the instant t, as a UTC time value
CivilIn(z, t) == Plus(t, Num(EastOffset(z, t)))

\* The months a civil time is from the start of year 0
MonthIndex(t) == getUTCFullYear(t) * 12 + getUTCMonth(t)

\* The length of month m (1..12) of year y in the Gregorian calendar
MonthLength(y, m) ==
    IF m = 2
    THEN (IF (y % 4 = 0 /\ y % 100 # 0) \/ y % 400 = 0 THEN 29 ELSE 28)
    ELSE IF m \in {4, 6, 9, 11} THEN 30
    ELSE 31

\* Whether y-m-d is a date of the Gregorian calendar
CalendarDate(y, m, d) == m \in 1..12 /\ d >= 1 /\ d <= MonthLength(y, m)

\* Whether a timestamp is one an instant may hold
InRange(t) == IsFinite(t) /\ ~Lt(MAX_TIME, Abs(t))

\* The day-of-month of the civil time before, clamped to the month numbered
\* target from the start of year 0
ClampedDay(before, target) ==
    Min(getUTCDate(before), MonthLength(target \div 12, (target % 12) + 1))

\* Whether the civil time after is n months from the civil time before, on
\* the day-of-month of before clamped to the target month
MonthClamped(before, after, n) ==
    /\ MonthIndex(after) = MonthIndex(before) + n
    /\ getUTCDate(after) = ClampedDay(before, MonthIndex(before) + n)

\* C1: add(n, "month") lands in the month n months on, on the civil
\* day-of-month min(original day, days in the target month), in every zone
\* and on every host system zone.
C1_MonthClamp ==
    (last.op = "add" /\ last.unit = "month" /\ last.err = "none")
        => MonthClamped(CivilIn(objs[last.recv].zone, objs[last.recv].time),
                        CivilIn(objs[last.recv].zone, objs[last.res].time),
                        last.amount)

\* The rank of a unit among the civil fields, year first
UnitRank(u) ==
    CASE u = "year"        -> 1
      [] u = "month"       -> 2
      [] u = "day"         -> 3
      [] u = "hour"        -> 4
      [] u = "minute"      -> 5
      [] u = "second"      -> 6
      [] u = "millisecond" -> 7

\* The civil field of rank k of a civil time
CivilField(t, k) ==
    CASE k = 1 -> getUTCFullYear(t)
      [] k = 2 -> getUTCMonth(t) + 1
      [] k = 3 -> getUTCDate(t)
      [] k = 4 -> getUTCHours(t)
      [] k = 5 -> getUTCMinutes(t)
      [] k = 6 -> getUTCSeconds(t)
      [] k = 7 -> getUTCMilliseconds(t)

\* The least value of the civil field of rank k
FieldFloor(k) == IF k \in {2, 3} THEN 1 ELSE 0

\* Whether the civil time after keeps the fields of before down to the unit u
\* and has the least value in every field below it
FlooredTo(before, after, u) ==
    \A k \in 1..7 :
        CivilField(after, k) = IF k <= UnitRank(u) THEN CivilField(before, k)
                               ELSE FieldFloor(k)

\* C2: startOf(u) returns an instant of the receiver's zone whose civil
\* fields below u, read in that zone, are zeroed and whose civil fields at
\* and above u are the receiver's, whatever the zone and the host zone are.
C2_StartOfZeroes ==
    (last.op = "startOf" /\ last.err = "none" /\ last.unit \in (Units \ {"week"}))
        => /\ objs[last.res].zone = objs[last.recv].zone
           /\ FlooredTo(CivilIn(objs[last.recv].zone, objs[last.recv].time),
                        CivilIn(objs[last.recv].zone, objs[last.res].time),
                        last.unit)

\* Whether the call second returned an instant with the timestamp of first
SameInstant(first, second) == second.err = "none" /\ second.val.time = first.time

\* C3: startOf is idempotent: startOf(u) of the instant startOf(u) returned
\* returns an instant with the same timestamp, in every zone.
C3_StartOfIdempotent ==
    (last.op = "startOf" /\ last.err = "none" /\ last.unit \in Units)
        => SameInstant(objs[last.res],
                       StartOf(Env(AnyNow), objs[last.res], last.unit))

\* Whether the instant r is one millisecond before the instant the call b
\* returned
OneBefore(r, b) == b.err = "none" /\ r.time = Minus(b.val.time, Num(1))

\* Whether r is one millisecond before startOf(u) of what the call a returned
BeforeNextStart(r, u, a) ==
    a.err = "none" /\ OneBefore(r, StartOf(a.env, a.val, u))

\* C4: for the units year, month, week, day, hour, minute and second, the
\* timestamp of endOf(u) is that of add(1, u).startOf(u) minus one
\* millisecond.
C4_EndOfBeforeNextStart ==
    (last.op = "endOf" /\ last.err = "none"
        /\ last.unit \in (Units \ {"millisecond"}))
        => BeforeNextStart(objs[last.res], last.unit,
                           Add(Env(AnyNow), objs[last.recv], 1, last.unit))

\* What C4 is seen on: the end of January 2024, the month before a leap
\* February, in a zone other than UTC
C4_Witness ==
    /\ last.op = "endOf" /\ last.err = "none" /\ last.unit = "month"
    /\ objs[last.recv].zone = NewYork
    /\ objs[last.recv].time = At(2024, 1, 31, 2, 30, 0, 0)
    /\ objs[last.res].time = At(2024, 2, 1, 4, 59, 59, 999)

\* The error the constructor raises for the time of an input given with a
\* zone the oracle rejects: the timestamp is validated before the zone
RejectedZoneError(input) ==
    IF input.kind \in {"number", "date"} /\ ValidateTimestamp(input.num) # "none"
    THEN "KronoError"
    ELSE "KronoTimezoneError"

\* C5: krono(input, {zone}) and tz(zone) with a zone the oracle rejects
\* return no instant (so none in UTC either) and raise KronoTimezoneError,
\* except that a number or native Date that is not a valid timestamp raises
\* KronoError, the timestamp being validated first.
C5_RejectedZoneRaises ==
    (last.op \in {"create", "tz"} /\ last.zone \notin OracleZones)
        => /\ last.res = 0
           /\ last.err = IF last.op = "create" THEN RejectedZoneError(last.input)
                         ELSE "KronoTimezoneError"

\* What C5 is seen on: a timestamp out of range given with a rejected zone
C5_Witness ==
    /\ last.op = "create" /\ last.zone = BadZone
    /\ last.input.kind = "number" /\ last.input.num = Plus(MAX_TIME, Num(1))
    /\ last.err = "KronoError" /\ last.res = 0 /\ objs = <<>>

\* C5 as stated: construction with a rejected zone always raises
\* KronoTimezoneError, for every kind of input.
C5_AlwaysTimezoneError ==
    (last.op \in {"create", "tz"} /\ last.zone \notin OracleZones)
        => last.err = "KronoTimezoneError"

\* Whether a string is a date alone, YYYY-MM-DD
DateOnly(s) == Len(s) = 10 /\ DatePrefix(s)

\* Whether the date a string starts with is a date of the calendar
PrefixInCalendar(s) == CalendarDate(IntAt(s, 1, 4), IntAt(s, 6, 2), IntAt(s, 9, 2))

\* C6: a date-only string YYYY-MM-DD is parsed into an instant exactly when
\* its month is in 1..12 and its day is in 1..(length of the month in that
\* year); otherwise krono raises KronoParseError.
C6_DateOnlyParses ==
    (last.op = "create" /\ last.input.kind = "string" /\ DateOnly(last.input.str)
        /\ last.zone \in OracleZones)
        => IF PrefixInCalendar(last.input.str)
           THEN last.err = "none" /\ last.res = 1
           ELSE last.err = "KronoParseError" /\ last.res = 0

\* What C6 is seen on: 1900-02-29, a day a year divisible by 100 and not by
\* 400 does not have, rejected where the platform would roll it over
C6_Witness ==
    /\ last.op = "create" /\ last.input = StringInput(DateText(1900, 2, 29))
    /\ last.zone = Tokyo /\ lenientDays
    /\ last.err = "KronoParseError" /\ last.validated

\* C7: every string that starts with a date-shaped prefix YYYY-MM-DD that is
\* not a date of the calendar is rejected with KronoParseError by the strict
\* ISO stage, whatever follows the prefix, and reaches no later stage.
C7_PrefixAlwaysValidated ==
    (last.op = "create" /\ last.input.kind = "string" /\ DatePrefix(last.input.str)
        /\ ~PrefixInCalendar(last.input.str) /\ last.zone \in OracleZones)
        => last.err = "KronoParseError" /\ last.stage = "iso" /\ last.validated

\* One step leaves the timestamp, zone and locale of every instant as they
\* were, and an instant add, subtract, set, startOf or endOf returns is a new
\* one with the zone and locale of the receiver
ImmutableStep ==
    /\ Len(objs') >= Len(objs)
    /\ \A i \in 1..Len(objs) :
          /\ objs'[i].time = objs[i].time
          /\ objs'[i].zone = objs[i].zone
          /\ objs'[i].locale = objs[i].locale
    /\ (last'.op \in {"add", "subtract", "set", "startOf", "endOf"}
           /\ last'.err = "none")
          => /\ last'.res = Len(objs) + 1
             /\ objs'[last'.res].zone = objs[last'.recv].zone
             /\ objs'[last'.res].locale = objs[last'.recv].locale

\* C8: instants are immutable: no operation changes the timestamp, zone or
\* locale of an instant, and add, subtract, set, startOf and endOf return a
\* new instant that carries the zone and locale of the receiver.
C8_Immutable == [][ImmutableStep]_vars

\* What C8 is seen on: add on an instant of a zone and a locale other than
\* the defaults returned an instant of another timestamp
C8_Witness ==
    /\ last.op = "add" /\ last.err = "none"
    /\ objs[last.recv].zone = Tokyo /\ objs[last.recv].locale = "fr-FR"
    /\ objs[last.res].zone = Tokyo /\ objs[last.res].locale = "fr-FR"
    /\ objs[last.res].time # objs[last.recv].time

\* C9: every instant has a finite timestamp within 8.64e15 ms of the epoch,
\* and a construction or operation that does not return an instant raises a
\* KronoError.
C9_InRangeOrKronoError ==
    /\ \A i \in 1..Len(objs) : InRange(objs[i].time)
    /\ last.err # "none" => last.err \in KronoErrors

\* Whether the call u, utc() on the instant tz returned, gave the timestamp t
\* back in UTC
BackInUtc(t, u) == u.err = "none" /\ u.val.zone = UTC /\ u.val.time = t

\* C10: tz(z) with a valid zone z returns an instant of zone z with the
\* timestamp of the receiver, and utc() of it has that timestamp too.
C10_ZoneConversion ==
    (last.op = "tz" /\ last.zone \in OracleZones)
        => /\ last.err = "none"
           /\ objs[last.res].zone = last.zone
           /\ objs[last.res].time = objs[last.recv].time
           /\ BackInUtc(objs[last.recv].time, Utc(Env(AnyNow), objs[last.res]))

\* What C10 is seen on: an instant of New York taken to Tokyo
C10_Witness ==
    /\ last.op = "tz" /\ last.err = "none" /\ last.zone = Tokyo
    /\ objs[last.recv].zone = NewYork
    /\ objs[last.res].zone = Tokyo
    /\ objs[last.res].time = At(2025, 3, 9, 3, 15, 0, 0)

\* Whether no entry of the offset cache is for UTC
NoUtcEntry == ~Cached(offsetCache, UTC)

\* Whether a step that is getOffset(t, "UTC") returns 0 and leaves the offset
\* cache as it was, order included
UtcLookupStep ==
    (last'.op = "getOffset" /\ last'.zone = UTC)
        => last'.val = Num(0) /\ offsetCache' = offsetCache

\* C11: getOffset(t, "UTC") returns 0 for every t and neither reads nor writes
\* the offset cache, and the offset cache never holds an entry for UTC.
C11_UtcBypassesCache == [][UtcLookupStep]_vars /\ []NoUtcEntry

\* What C11 is seen on: getOffset on UTC while the cache holds another zone
C11_Witness ==
    /\ last.op = "getOffset" /\ last.zone = UTC /\ last.stage = "utc"
    /\ last.input.num = At(2025, 3, 9, 3, 15, 0, 0)
    /\ Cached(offsetCache, Tokyo)

\* The zone identifiers the offset cache holds
CachedZones == {offsetCache[i].zone : i \in 1..Len(offsetCache)}

\* C12: the offset cache holds at most 100 distinct zone identifiers, whatever
\* the lookups were and however many zones they named.
C12_CacheBounded ==
    /\ Len(offsetCache) <= OffsetCacheMax
    /\ Cardinality(CachedZones) <= OffsetCacheMax

\* What C12 is seen on: a full cache after the lookup of a 101st zone, the
\* first zone looked up gone from it
C12_Witness ==
    /\ last.op = "getOffset" /\ last.zone = MoreZone(OffsetCacheMax + 1)
    /\ Cardinality(CachedZones) = OffsetCacheMax
    /\ Cached(offsetCache, MoreZone(OffsetCacheMax + 1))
    /\ ~Cached(offsetCache, MoreZone(1))

\* C13: getOffset returns an offset whatever it is given; on a zone the oracle
\* fails for it returns 0 after the warning, and the offset cache has no entry
\* for that zone.
C13_FailedLookupReturnsZero ==
    (last.op = "getOffset")
        => /\ last.err = "none"
           /\ last.zone \notin OracleZones
                 => /\ last.val = Num(0)
                    /\ last.stage = "failed"
                    /\ ~Cached(offsetCache, last.zone)

\* What C13 is seen on: getOffset on a zone the oracle rejects after a lookup
\* that filled the cache
C13_Witness ==
    /\ last.op = "getOffset" /\ last.zone = BadZone /\ last.val = Num(0)
    /\ last.input.num = At(2025, 1, 31, 12, 34, 56, 789)
    /\ offsetCache # <<>>

\* Whether a step keeps every identifier of the zone-validity set, and, when
\* it is isValid(z) on an identifier of the set, returns true without asking
\* the oracle
ValidZonesStep ==
    /\ validZones \subseteq validZones'
    /\ (last'.op = "isValid" /\ last'.zone \in validZones)
          => last'.val = TRUE /\ last'.stage = "known"
    /\ (last'.op = "isValid" /\ last'.zone \notin OracleZones)
          => last'.val = FALSE /\ last'.zone \notin validZones'

\* C14: the zone-validity set holds only identifiers the oracle accepted, it
\* never loses one, a rejected identifier is never added, and isValid(z) on a
\* member returns true without asking the oracle again.
C14_ValidZonesAppendOnly ==
    [][ValidZonesStep]_vars /\ [](validZones \subseteq OracleZones)

\* What C14 is seen on: isValid answered from the set, after a construction
\* in that zone
C14_Witness ==
    /\ last.op = "isValid" /\ last.zone = Tokyo /\ last.stage = "known"
    /\ last.val = TRUE
    /\ Len(objs) = 1 /\ objs[1].zone = Tokyo
    /\ validZones = {Tokyo}

\* The weekday (Sunday = 0) of the civil time c
WeekdayOf(c) == (c.d + 4) % 7

\* The days from a day of weekday c to the first day strictly after it
\* (dir = 1) or strictly before it (dir = -1) that has weekday w: 1 to 7
\* days, signed by dir
WeekdayShift(c, w, dir) ==
    IF dir = 1 THEN ((w - c + 6) % 7) + 1 ELSE -(((c - w + 6) % 7) + 1)

\* The midnight the weekday phrase wc names, as a civil time, when the civil
\* time of the clock reading is c
WeekdayMidnight(c, wc) ==
    [d |-> c.d + WeekdayShift(WeekdayOf(c), wc.day, wc.dir), ms |-> 0]

\* Whether the instance o is at the midnight the weekday phrase wc names in
\* the zone z, the clock reading now
AtWeekdayMidnight(o, z, now, wc) ==
    CivilIn(z, o.time) = WeekdayMidnight(CivilIn(z, now), wc)

\* C15: "next <weekday>" and "last <weekday>" construct the instant at
\* 00:00:00.000 civil time, in the default zone, of the first day strictly
\* after (strictly before) the current civil day that has that weekday.
C15_WeekdayPhrase ==
    (last.op = "create" /\ last.zone \in OracleZones)
        => \A wc \in WeekdayCases :
              wc.str = last.input.str
                  => /\ last.err = "none"
                     /\ AtWeekdayMidnight(objs[1], last.zone, last.val, wc)

\* The amount the relative expression rc shifts by: backwards when it holds
\* the word "ago"
SignedAmount(rc) == IF rc.ago THEN -rc.amount ELSE rc.amount

\* The timestamp the arithmetic engine gives for now shifted by the relative
\* expression rc in the zone z
ShiftedNow(now, z, rc) ==
    AddTimeWithDST(MkEnv(<<>>, {}, hostZone, lenientDays, now), now,
                   SignedAmount(rc), rc.unit, z).val

\* Whether the instance o is the clock reading shifted as rc says, and, for
\* a unit of fixed length in UTC, the clock reading plus the signed amount
\* times the length of the unit
RelativeShifted(o, z, now, rc) ==
    /\ o.time = ShiftedNow(now, z, rc)
    /\ (z = UTC /\ InUnitMultipliers(rc.unit) /\ rc.unit # "week")
          => o.time = Plus(now, Num(SignedAmount(rc) * UnitMultiplier(rc.unit)))

\* C16: a relative expression, in any letter case, constructs the clock
\* reading shifted by its amount of its unit through the arithmetic engine,
\* backwards exactly when the word "ago" is in it (in any letter case) and
\* forwards otherwise.
C16_RelativeExpression ==
    (last.op = "create" /\ last.zone \in OracleZones)
        => \A rc \in RelativeCases :
              rc.str = last.input.str
                  => /\ last.err = "none"
                     /\ RelativeShifted(objs[1], last.zone, last.val, rc)

\* Whether a is at most b
Le(a, b) == ~Lt(b, a)

\* q times the multiplier mult, for a count q of units no longer than a day,
\* or of weeks
Multiplied(q, mult) ==
    IF mult = MS_PER_WEEK THEN [d |-> 7 * (q.d * MS_PER_DAY + q.ms), ms |-> 0]
    ELSE Norm(q.d * mult + (q.ms \div (MS_PER_DAY \div mult)),
              (q.ms % (MS_PER_DAY \div mult)) * mult)

\* Whether q is the floor of delta / mult: q * mult <= delta < (q + 1) * mult
IsFloorOf(q, delta, mult) ==
    /\ IsFinite(q) /\ q.d >= 0
    /\ Le(Multiplied(q, mult), delta)
    /\ Lt(delta, Plus(Multiplied(q, mult), Num(mult)))

\* The two instances a and b taken to the zones za and zb
InZones(a, b, za, zb) == <<[a EXCEPT !.zone = za], [b EXCEPT !.zone = zb]>>

\* Whether q is what diff gives for a and b in either order and in any zones
SameInAnyOrderAndZone(q, a, b, unit) ==
    /\ q = Diff(Env(AnyNow), <<a, b>>, 2, 1, unit).val
    /\ \A za \in HostZones, zb \in HostZones :
          q = Diff(Env(AnyNow), InZones(a, b, za, zb), 1, 2, unit).val

\* C17: for a unit of fixed size, a.diff(b, unit) is the floor of |a - b| over
\* the multiplier of the unit: not negative, the same as b.diff(a, unit), and
\* the same whatever the zones of a and b are.
C17_DiffFixedUnits ==
    (last.op = "diff" /\ InUnitMultipliers(last.unit))
        => /\ IsFloorOf(last.val,
                        Abs(Minus(objs[last.recv].time, objs[last.amount].time)),
                        UnitMultiplier(last.unit))
           /\ SameInAnyOrderAndZone(last.val, objs[last.recv], objs[last.amount],
                                    last.unit)

\* What C17 is seen on: 62 hours between an instant of Tokyo and a later
\* instant of New York
C17_Witness ==
    /\ last.op = "diff" /\ last.unit = "hour" /\ last.recv = 2 /\ last.amount = 1
    /\ objs[1].zone = NewYork /\ objs[1].time = At(2025, 6, 18, 10, 20, 30, 400)
    /\ objs[2].zone = Tokyo /\ objs[2].time = At(2025, 6, 15, 20, 0, 0, 0)
    /\ last.val = Num(62)

\* The indices a list of dates names
Named(dates) == {dates[k] : k \in 1..Len(dates)}

\* Whether the instance of index r is one the list names and none the list
\* names is before it (op "min") or after it (op "max")
IsExtreme(op, dates, r) ==
    /\ r \in Named(dates)
    /\ \A i \in Named(dates) :
          IF op = "min" THEN ~Lt(objs[i].time, objs[r].time)
          ELSE ~Lt(objs[r].time, objs[i].time)

\* C18: Krono.min and Krono.max raise a KronoError over an empty list; over
\* another list they return one of the instances given, itself, with the least
\* (the greatest) timestamp of the list, the element of a list of one.
C18_MinMax ==
    (last.op \in {"min", "max"})
        => IF last.input.str = <<>> THEN last.err = "KronoError" /\ last.res = 0
           ELSE /\ last.err = "none"
                /\ IsExtreme(last.op, last.input.str, last.res)
                /\ Len(last.input.str) = 1 => last.res = last.input.str[1]

\* What C18 is seen on: the minimum of three, the earlier instance named
\* second
C18_Witness ==
    /\ last.op = "min" /\ last.input.str = <<2, 1, 2>> /\ last.res = 1
    /\ Lt(objs[1].time, objs[2].time)

\* Whether the call has no accessor for its unit: set on the week, get or set
\* on a unit that is none of the eight
NoAccessor(call) ==
    \/ call.op = "set" /\ call.unit = "week"
    \/ call.op \in {"set", "getUnit"} /\ call.unit \notin Units

\* Whether the instances have the timestamps, zones and locales they had
SameInstants(before, after) ==
    /\ Len(after) = Len(before)
    /\ \A i \in 1..Len(before) :
          /\ after[i].time = before[i].time
          /\ after[i].zone = before[i].zone
          /\ after[i].locale = before[i].locale

\* Whether a step that is a call without accessor raises a KronoError, gives
\* no instance, and leaves every instance as it was
NoAccessorStep ==
    NoAccessor(last')
        => /\ last'.err = "KronoError"
           /\ last'.res = 0
           /\ SameInstants(objs, objs')

\* C19: set("week", v), and get(u) and set(u, v) for a u that is none of the
\* eight units, raise a KronoError, return nothing, and leave the receiver
\* unchanged.
C19_NoAccessorRaises == [][NoAccessorStep]_vars

\* What C19 is seen on: get on a unit that is none, on an instance of Tokyo
C19_Witness ==
    /\ last.op = "getUnit" /\ last.unit = "fortnight" /\ last.err = "KronoError"
    /\ objs[last.recv].zone = Tokyo

\* The civil days from the day of the reference to the day of the instance o,
\* both in the zone of o
CivilDaysBetween(o, referenceTime) ==
    CivilIn(o.zone, o.time).d - CivilIn(o.zone, referenceTime).d

\* The label of a day difference
LabelOf(d) ==
    IF d = 0 THEN "Today"
    ELSE IF d = 1 THEN "Tomorrow"
    ELSE IF d = -1 THEN "Yesterday"
    ELSE IF 2 <= d /\ d <= 6 THEN "Weekday"
    ELSE IF -6 <= d /\ d <= -2 THEN "Last"
    ELSE ""

\* Whether the text c is what calendar owes for the day difference d of the
\* instance o: the label of d, the weekday of o for 2 to 6 days either way,
\* and the time of o, the full date for a difference beyond
Classified(c, o, d) ==
    /\ c.label = LabelOf(d)
    /\ c.text.civil = CivilIn(o.zone, o.time)
    /\ IF c.label \in {"Weekday", "Last"}
       THEN "weekday" \in DOMAIN c.dayName.style
            /\ c.dayName.civil = CivilIn(o.zone, o.time)
       ELSE c.dayName = NoText
    /\ (c.label = "") => {"year", "month", "day"} \subseteq DOMAIN c.text.style

\* C20: calendar(reference) names the day by the whole days from the civil
\* day of the reference to the civil day of the instance, both in the zone of
\* the instance: Today, Tomorrow, Yesterday, the weekday for 2 to 6 days
\* ahead, "Last" and the weekday for 2 to 6 days back, the full date beyond;
\* the reference is the clock reading when none is given.
C20_CalendarLabel ==
    (last.op = "calendar")
        => /\ last.err = "none"
           /\ Classified(last.val, objs[last.recv],
                         CivilDaysBetween(objs[last.recv],
                                          IF last.amount = 0 THEN AnyNow
                                          ELSE objs[last.amount].time))

\* What C20 is seen on: the day after the clock reading is Tomorrow, in a
\* zone that is not the one of the host
C20_Witness ==
    /\ last.op = "calendar" /\ last.amount = 0 /\ last.val.label = "Tomorrow"
    /\ objs[last.recv].time = At(2025, 6, 16, 10, 20, 30, 400)
    /\ objs[last.recv].zone = Tokyo /\ hostZone = NewYork

\* The ordinal, from 1, of the civil day of the civil time c within its year
OrdinalDay(c) == c.d - DaysFromCivil(getUTCFullYear(c), 1, 1) + 1

\* C21: dayOfYear is the ordinal of the civil day of the instant within its
\* civil year, at any time of the day: 1 throughout January 1st, 365 or 366
\* throughout December 31st.
C21_DayOfYearOrdinal ==
    (last.op = "dayOfYear")
        => /\ last.err = "none"
           /\ last.val = OrdinalDay(CivilIn(objs[last.recv].zone, objs[last.recv].time))

\* Whether daylight saving time is in effect in the zone z at the instant t
InDaylightTime(z, t) == EastOffset(z, t) # ZoneOffsets(z)[1]

\* C22: isDST is true exactly when daylight saving time is in effect for the
\* instant in its zone: false in UTC and in a zone that keeps one offset all
\* year.
C22_IsDSTExact ==
    (last.op = "isDST")
        => /\ last.err = "none"
           /\ last.val = InDaylightTime(objs[last.recv].zone, objs[last.recv].time)
\* The zone identifiers of the cache c, least recently used first
ZoneOrder(c) == [i \in 1..Len(c) |-> c[i].zone]

\* The order after a use of the zone: it is last, the others keep their order
UsedLast(order, zoneName) ==
    Append(SelectSeq(order, LAMBDA z : z # zoneName), zoneName)

\* A getOffset call has just returned, on a zone other than UTC while the
\* cache was full
LookupOnFull ==
    /\ last'.op = "getOffset" /\ last'.zone # UTC
    /\ Len(offsetCache) = OffsetCacheMax

\* C23: a lookup the oracle answers, for a zone a full offset cache does not
\* hold, evicts exactly the least recently used zone and puts the new zone
\* last; every lookup on a cached zone, stored timestamp or not, makes it the
\* most recently used; a lookup the oracle fails for on a zone the cache does
\* not hold leaves the cache as it was.
C23_EvictsLeastRecentlyUsed ==
    [][LookupOnFull =>
          IF Cached(offsetCache, last'.zone)
          THEN ZoneOrder(offsetCache') = UsedLast(ZoneOrder(offsetCache), last'.zone)
          ELSE IF last'.stage = "computed"
          THEN ZoneOrder(offsetCache') = Append(Tail(ZoneOrder(offsetCache)), last'.zone)
          ELSE offsetCache' = offsetCache]_vars

\* C23 as stated: every lookup for a zone a full cache does not hold evicts
\* the least recently used zone.
C23_EveryLookupEvicts ==
    [][(LookupOnFull /\ ~Cached(offsetCache, last'.zone))
          => ZoneOrder(offsetCache') = Append(Tail(ZoneOrder(offsetCache)), last'.zone)]_vars

\* What C23 is seen on: the first zone looked up was looked up again once the
\* cache was full, and the lookup of a 101st zone evicted the second one
C23_Witness ==
    /\ last.op = "getOffset" /\ last.zone = MoreZone(OffsetCacheMax + 1)
    /\ last.stage = "computed"
    /\ Len(offsetCache) = OffsetCacheMax
    /\ Cached(offsetCache, MoreZone(1))
    /\ ~Cached(offsetCache, MoreZone(2))
    /\ offsetCache[OffsetCacheMax].zone = MoreZone(OffsetCacheMax + 1)
\* Whether the civil time before is on February 29 and year y has none
LeapDayLost(before, y) ==
    getUTCMonth(before) = 1 /\ getUTCDate(before) = 29 /\ ~IsLeapYear(y)

\* Whether the civil time after is in the year n years from the civil time
\* before, on the same month and day, or on March 1 from a February 29 the
\* year does not have
YearRolled(before, after, n) ==
    /\ getUTCFullYear(after) = getUTCFullYear(before) + n
    /\ IF LeapDayLost(before, getUTCFullYear(before) + n)
       THEN getUTCMonth(after) = 2 /\ getUTCDate(after) = 1
       ELSE /\ getUTCMonth(after) = getUTCMonth(before)
            /\ getUTCDate(after) = getUTCDate(before)

\* Whether the civil time c and the civil time n years from it are in year
\* 100 or later: the years Date.UTC takes as the formatter prints them,
\* which it prints without an era
YearsAsPrinted(c, n) == getUTCFullYear(c) >= 100 /\ getUTCFullYear(c) + n >= 100

DaysFromMonday(c) == IF getUTCDay(c) = 0 THEN 6 ELSE getUTCDay(c) - 1

\* Whether the civil time after is midnight of the Monday of the week of the
\* civil time before
MondayMidnight(before, after) ==
    /\ after.ms = 0
    /\ getUTCDay(after) = 1
    /\ after.d = before.d - DaysFromMonday(before)

\* C25: startOf("week") is 00:00:00.000 civil time of the Monday of the
\* instant's week, 6 civil days back from a Sunday and (weekday - 1) days
\* back otherwise, and never after the instant.
C25_WeekStartsMonday ==
    (last.op = "startOf" /\ last.unit = "week" /\ last.err = "none")
        => /\ MondayMidnight(CivilIn(objs[last.recv].zone, objs[last.recv].time),
                             CivilIn(objs[last.recv].zone, objs[last.res].time))
           /\ Le(objs[last.res].time, objs[last.recv].time)
\* Whether the zone keeps one offset an hour before the instant t and another
\* an hour after
OffsetsDiffer(z, t) ==
    /\ z \in OracleZones /\ IsFinite(t)
    /\ EastOffset(z, Minus(t, Num(MS_PER_HOUR))) # EastOffset(z, Plus(t, Num(MS_PER_HOUR)))

\* The civil time addTimeWithDST computes for t in the zone, one unit on
\* (the offset cache and the set of valid zones do not change the value)
CivilShifted(t, z, unit) ==
    ShiftCivil(hostZone,
               TimeClip(Minus(t, GetOffset(Env(AnyNow), t, z).val)), 1, unit)

\* The instant the civil time c stands for with the offset looked up at c
WithOffsetAt(c, z) == Plus(c, GetOffset(Env(AnyNow), c, z).val)

\* C26: handleDSTAmbiguity returns the timestamp unchanged when the preference
\* is "later", when the zone is UTC and when the offsets an hour before and
\* an hour after are equal; it returns the timestamp minus one hour only when
\* the preference is "earlier" and the two offsets differ.  So the step that
\* ends an addition of calendar units leaves the computed result as it is.
C26_AmbiguityPolicy ==
    /\ (last.op = "handleDSTAmbiguity")
           => last.val = IF last.stage = "earlier" /\ last.zone # UTC
                             /\ OffsetsDiffer(last.zone, last.input.num)
                         THEN Minus(last.input.num, Num(MS_PER_HOUR))
                         ELSE last.input.num
    /\ (last.op = "addTimeWithDST")
           => last.val = WithOffsetAt(CivilShifted(last.input.num, last.zone, last.unit),
                                      last.zone)

\* What C26 is seen on: half an hour before New York leaves its standard
\* time, with the preference "earlier": an hour back
C26_Witness ==
    /\ last.op = "handleDSTAmbiguity" /\ last.stage = "earlier"
    /\ last.zone = NewYork /\ last.input.num = At(2025, 3, 9, 6, 30, 0, 0)
    /\ last.val = At(2025, 3, 9, 5, 30, 0, 0)
\* Whether the civil time after is days civil days from the civil time
\* before, at the same time of the day
DaysOn(before, after, days) == after.d = before.d + days /\ after.ms = before.ms

\* The days n units of days or weeks are
DaysOf(n, unit) == IF unit = "week" THEN 7 * n ELSE n

\* C27: add(n, "day") and add(n, "week") move the civil date by n or 7n days
\* and keep the civil time of the day read in the zone, across a change of
\* the zone's offset too.
C27_DayAddKeepsCivilTime ==
    (last.op = "add" /\ last.unit \in {"day", "week"} /\ last.err = "none")
        => DaysOn(CivilIn(objs[last.recv].zone, objs[last.recv].time),
                  CivilIn(objs[last.recv].zone, objs[last.res].time),
                  DaysOf(last.amount, last.unit))
\* C28: a.diff(b, "month") and a.diff(b, "year") are not negative and equal
\* b.diff(a, "month") and b.diff(a, "year"), whatever the zones of a and b are
\* and when their timestamps are equal too.
C28_CivilDiffSymmetric ==
    (last.op = "diff" /\ last.unit \in {"month", "year"})
        => /\ Le(Num(0), last.val)
           /\ last.val = Diff(Env(AnyNow), objs, last.amount, last.recv, last.unit).val
\* The civil fields of the civil time c, by the unit that names them
CivilFields(c) ==
    [year |-> getUTCFullYear(c), month |-> getUTCMonth(c) + 1, day |-> getUTCDate(c),
     hour |-> getUTCHours(c), minute |-> getUTCMinutes(c),
     second |-> getUTCSeconds(c), millisecond |-> getUTCMilliseconds(c)]

\* Whether the fields f name a day their month has
DayExists(f) == f.day <= MonthLength(f.year, f.month)

\* C29: set(u, v), v in range for u and valid with the other civil fields of
\* the instant, returns an instant of the same zone whose field u is v and
\* whose other civil fields, read in that zone, are those of the receiver.
C29_SetKeepsOtherFields ==
    (last.op = "set" /\ last.unit \in (Units \ {"week"}) /\ last.err = "none"
        /\ DayExists([CivilFields(CivilIn(objs[last.recv].zone, objs[last.recv].time))
                         EXCEPT ![last.unit] = last.amount]))
        => /\ objs[last.res].zone = objs[last.recv].zone
           /\ CivilFields(CivilIn(objs[last.recv].zone, objs[last.res].time))
                 = [CivilFields(CivilIn(objs[last.recv].zone, objs[last.recv].time))
                      EXCEPT ![last.unit] = last.amount]
\* Whether a string is a date or a date and a time of the day with nothing
\* after it: YYYY-MM-DD, and that with HH:MM, HH:MM:SS or HH:MM:SS.mmm
NoZoneSuffix(s) == DatePrefix(s) /\ Len(s) \in {10, 16, 19, 23}

\* The civil time such a string writes, the fields it leaves out 0
WrittenTime(s) ==
    At(IntAt(s, 1, 4), IntAt(s, 6, 2), IntAt(s, 9, 2),
       IF Len(s) >= 16 THEN IntAt(s, 12, 2) ELSE 0,
       IF Len(s) >= 16 THEN IntAt(s, 15, 2) ELSE 0,
       IF Len(s) >= 19 THEN IntAt(s, 18, 2) ELSE 0,
       IF Len(s) >= 23 THEN IntAt(s, 21, 3) ELSE 0)

\* C30: krono(s, {zone: z}) on a valid date or date-time string without a
\* zone suffix is the instant whose civil fields read in zone z are the
\* fields written in s, on every host system zone.
C30_ZonelessStringInZone ==
    (last.op = "create" /\ last.input.kind = "string" /\ last.zone \in OracleZones
        /\ NoZoneSuffix(last.input.str) /\ PrefixInCalendar(last.input.str))
        => /\ last.err = "none"
           /\ CivilIn(last.zone, objs[last.res].time) = WrittenTime(last.input.str)
====
